---- MODULE Spec2Model ----
(***************************************************************************)
(* Model of the andromede problem builder: a study network (nodes,         *)
(* components, port connections) is compiled by build_problem into solver  *)
(* variables, constraint rows and one objective, in four phases.           *)
(*   src/src/andromede/study/network.py                                    *)
(*   src/src/andromede/study/data.py                                       *)
(*   src/src/andromede/simulation/optimization.py                          *)
(***************************************************************************)
EXTENDS Integers, Sequences, FiniteSets, TLC

(***************************************************************************)
(* Bounds of the explored inputs.                                          *)
(***************************************************************************)
MaxConnections == 1
MaxBlockLength == 2
MaxScenarios == 2
MaxQuery == 3
MaxData == 2
MaxProblems == 3
MaxCoefficient == 1

NodeIds == {"a"}
ComponentIds == {"a", "b"}
ModelIds == {"node", "gen", "store", "ramp"}
NodeModelIds == {"node"}
PortIds == {"p", "q"}

(***************************************************************************)
(* Small helpers on sequences.                                             *)
(***************************************************************************)
Range(seq) == {seq[i] : i \in 1..Len(seq)}

Some(v) == <<v>>

None == <<>>

(***************************************************************************)
(* solver.infinity(), the default magnitude of a variable bound.           *)
(***************************************************************************)
Infinity == 1000

(***************************************************************************)
(* The catalogue of models a study can instantiate (already parsed input). *)
(* An expression is given in linear form: terms over variables of the      *)
(* owning model, a constant, and references to port fields.                *)
(***************************************************************************)
NoTimeOp == [kind |-> "none", time_ids |-> <<>>]

Shift(ids) == [kind |-> "shift", time_ids |-> ids]

Evaluation(ids) == [kind |-> "eval", time_ids |-> ids]

Var(name, coef) ==
    [component_id |-> "", variable_name |-> name, coefficient |-> coef,
     time_operator |-> NoTimeOp, time_aggregator |-> "none",
     scenario_operator |-> "none"]

Expr(terms, constant, portFields) ==
    [terms |-> terms, constant |-> constant, port_fields |-> portFields]

Lit(v) == [value |-> v, time |-> FALSE, scenario |-> FALSE]

\* a bound read from scenario-dependent data: v in scenario 0, v + s in scenario s
ScenarioBound(v) == [value |-> v, time |-> FALSE, scenario |-> TRUE]

PortTypeFields(pt) ==
    CASE pt = "flow_pt" -> <<"flow">>
      [] pt = "two_pt" -> <<"u", "v">>

NodeModel ==
    [variables |-> <<
        [name |-> "spill", time |-> TRUE, scenario |-> FALSE,
         context |-> "operational", lower_bound |-> None, upper_bound |-> None]>>,
     parameters |-> <<[name |-> "tol", time |-> FALSE, scenario |-> FALSE]>>,
     ports |-> <<[port_name |-> "p", port_type |-> "flow_pt"]>>,
     port_fields_definitions |-> <<>>,
     constraints |-> <<
        [name |-> "balance",
         expression |-> Expr(<<>>, 0, <<[port_name |-> "p", field_name |-> "flow"]>>),
         lower_bound |-> Lit(0), upper_bound |-> Lit(0)]>>,
     objective_operational_contribution |-> None,
     objective_investment_contribution |-> None]

GenModel ==
    [variables |-> <<
        [name |-> "gen", time |-> TRUE, scenario |-> TRUE,
         context |-> "operational", lower_bound |-> Some(0), upper_bound |-> Some(100)],
        [name |-> "cap", time |-> FALSE, scenario |-> FALSE,
         context |-> "investment", lower_bound |-> Some(0), upper_bound |-> None]>>,
     parameters |-> <<[name |-> "cost", time |-> FALSE, scenario |-> FALSE]>>,
     ports |-> <<[port_name |-> "p", port_type |-> "flow_pt"],
                 [port_name |-> "q", port_type |-> "two_pt"]>>,
     port_fields_definitions |-> <<
        [port_name |-> "p", field_name |-> "flow",
         definition |-> Expr(<<Var("gen", 1)>>, 0, <<>>)],
        [port_name |-> "q", field_name |-> "u",
         definition |-> Expr(<<Var("gen", 2)>>, 0, <<>>)]>>,
     constraints |-> <<
        [name |-> "max_cap",
         expression |-> Expr(<<Var("cap", 1)>>, 0, <<>>),
         lower_bound |-> Lit(-Infinity), upper_bound |-> ScenarioBound(50)]>>,
     objective_operational_contribution |->
        Some(Expr(<<[Var("gen", 4) EXCEPT !.time_aggregator = "sum",
                                          !.scenario_operator = "expec"]>>, 0, <<>>)),
     objective_investment_contribution |->
        Some(Expr(<<Var("cap", 5)>>, 7, <<>>))]

StoreModel ==
    [variables |-> <<
        [name |-> "level", time |-> TRUE, scenario |-> FALSE,
         context |-> "operational", lower_bound |-> None, upper_bound |-> Some(10)],
        [name |-> "size", time |-> FALSE, scenario |-> TRUE,
         context |-> "investment", lower_bound |-> None, upper_bound |-> None]>>,
     parameters |-> <<[name |-> "inflow", time |-> TRUE, scenario |-> FALSE]>>,
     ports |-> <<[port_name |-> "p", port_type |-> "flow_pt"],
                 [port_name |-> "q", port_type |-> "two_pt"]>>,
     port_fields_definitions |-> <<
        [port_name |-> "q", field_name |-> "v",
         definition |-> Expr(<<Var("level", 1)>>, 0, <<>>)]>>,
     constraints |-> <<
        [name |-> "dynamics",
         expression |-> Expr(<<Var("level", 1),
                               [Var("level", -1) EXCEPT !.time_operator = Shift(<<-1>>)]>>,
                             1, <<>>),
         lower_bound |-> Lit(0), upper_bound |-> ScenarioBound(0)],
        [name |-> "window",
         expression |-> Expr(<<[Var("level", 1) EXCEPT !.time_operator = Shift(<<1, 2>>)],
                               Var("size", -1)>>, 2, <<>>),
         lower_bound |-> Lit(-Infinity), upper_bound |-> Lit(3)]>>,
     objective_operational_contribution |->
        Some(Expr(<<[Var("level", 2) EXCEPT !.time_operator = Evaluation(<<0>>)]>>, 1, <<>>)),
     objective_investment_contribution |-> None]

\* a model whose one constraint has terms with index lists of different
\* lengths: flow[t+1], flow[t+2] against flow[t-1]
RampModel ==
    [variables |-> <<
        [name |-> "flow", time |-> TRUE, scenario |-> FALSE,
         context |-> "operational", lower_bound |-> None, upper_bound |-> None]>>,
     parameters |-> <<>>,
     ports |-> <<>>,
     port_fields_definitions |-> <<>>,
     constraints |-> <<
        [name |-> "ramp",
         expression |-> Expr(<<[Var("flow", 1) EXCEPT !.time_operator = Shift(<<1, 2>>)],
                               [Var("flow", -1) EXCEPT !.time_operator = Shift(<<-1>>)]>>,
                             0, <<>>),
         lower_bound |-> Lit(-Infinity), upper_bound |-> Lit(1)]>>,
     objective_operational_contribution |-> None,
     objective_investment_contribution |-> None]

ModelOf(m) ==
    CASE m = "node" -> NodeModel
      [] m = "gen" -> GenModel
      [] m = "store" -> StoreModel
      [] m = "ramp" -> RampModel

VARIABLES
    nodes,          \* Network._nodes, in insertion order: <<[id, model]>>
    components,     \* Network._components, in insertion order
    connections,    \* Network._connections
    database,       \* DataBase._data: (component id, parameter) -> kind of data
    pc,             \* position of the build: idle, the phase to run, done, aborted
    err,            \* the exception that ended the last call, "none" otherwise
    ptype,          \* OptimizationProblem.type
    border,         \* OptimizationContext._border_management
    block_length,   \* len(OptimizationContext._block.timesteps)
    scenarios,      \* OptimizationContext._scenarios
    idx,            \* position of the running phase in network.all_components
    phases,         \* the phases entered so far, in order
    component_variables,            \* OptimizationContext._component_variables
    connection_fields_expressions,  \* OptimizationContext._connection_fields_expressions
    solver_vars,    \* the solver's variables in creation order: <<[name, lb, ub]>>
    solver_rows,    \* the solver's constraints in creation order
    objective,      \* the solver's objective: coefficients and offset
    lookups,        \* the variable lookups made so far by the build
    contributions,  \* the objective contributions added so far
    problems,       \* export_xpansion_problem: the problems supplied
    xpc,            \* position of the export: idle, master, subproblems, returned
    xi,             \* position of the subproblem loop in problems
    problem_to_candidates,  \* dict: problem name -> dict: candidate -> column index
    candidates,     \* the candidates identified in the master
    exported,       \* positions of the problems whose export_as_mps was called
    written,        \* the calls of write_to_file so far: <<[file, ok]>>
    files,          \* the directory outputs/lp: file name -> content
    result,         \* what export_xpansion_problem returned, None before
    lhs,            \* linear expression algebra: left operand
    rhs,            \* right operand
    out,            \* result of the last operation
    op              \* the last operation

exportVars == <<problems, xpc, xi, problem_to_candidates, candidates, exported,
                written, files, result>>

algebraVars == <<lhs, rhs, out, op>>

studyVars == <<nodes, components, connections, database, pc, err, ptype, border,
               block_length, scenarios, idx, phases, component_variables,
               connection_fields_expressions, solver_vars, solver_rows, objective,
               lookups, contributions>>

vars == <<studyVars, exportVars, algebraVars>>

networkVars == <<nodes, components, connections>>

contextVars == <<ptype, border, block_length, scenarios>>

buildVars == <<idx, phases, component_variables, connection_fields_expressions,
               solver_vars, solver_rows, objective, lookups, contributions>>

(***************************************************************************)
(* network.py: the study network.                                          *)
(***************************************************************************)
Component(m, id) == [model |-> m, id |-> id]

PortRef(component, port_id) == [component |-> component, port_id |-> port_id]

\* dict[key] = value on an insertion-ordered dict keyed by the id
DictPut(dict, item) ==
    IF \E i \in 1..Len(dict) : dict[i].id = item.id
    THEN [i \in 1..Len(dict) |-> IF dict[i].id = item.id THEN item ELSE dict[i]]
    ELSE Append(dict, item)

HasId(dict, id) == \E i \in 1..Len(dict) : dict[i].id = id

DictGet(dict, id) == dict[CHOOSE i \in 1..Len(dict) : dict[i].id = id]

\* Network.all_components: nodes first, then components
AllComponents == nodes \o components

\* Model.ports.get(port_id)
ModelPorts(m, port_id) ==
    LET ps == ModelOf(m).ports
        hit == {i \in 1..Len(ps) : ps[i].port_name = port_id}
    IN IF hit = {} THEN None ELSE Some(ps[CHOOSE i \in hit : TRUE])

\* PortFieldId(port, field) in Model.port_fields_definitions
HasDefinition(m, port_name, field_name) ==
    \E d \in Range(ModelOf(m).port_fields_definitions) :
        d.port_name = port_name /\ d.field_name = field_name

PortFieldDefinition(m, port_name, field_name) ==
    LET ds == ModelOf(m).port_fields_definitions
    IN ds[CHOOSE i \in 1..Len(ds) :
            ds[i].port_name = port_name /\ ds[i].field_name = field_name].definition

\* mutant: a field defined by both endpoints is accepted
RECURSIVE ValidateFieldsBothAccepted(_, _, _, _, _)
ValidateFieldsBothAccepted(port1, port2, fields, k, master) ==
    IF k > Len(fields) THEN [err |-> "none", master_port |-> master]
    ELSE LET def1 == HasDefinition(port1.component.model, port1.port_id, fields[k])
             def2 == HasDefinition(port2.component.model, port2.port_id, fields[k])
         IN IF ~def1 /\ ~def2 THEN [err |-> "ValueError", master_port |-> master]
            ELSE ValidateFieldsBothAccepted(port1, port2, fields, k + 1,
                    Append(master, [field |-> fields[k],
                                    port |-> IF def1 THEN port1 ELSE port2]))

\* the loop of PortsConnection.__validate_ports over the fields of the port type
RECURSIVE ValidateFields(_, _, _, _, _)
ValidateFields(port1, port2, fields, k, master) ==
    IF k > Len(fields) THEN [err |-> "none", master_port |-> master]
    ELSE LET def1 == HasDefinition(port1.component.model, port1.port_id, fields[k])
             def2 == HasDefinition(port2.component.model, port2.port_id, fields[k])
         IN IF ~def1 /\ ~def2 THEN [err |-> "ValueError", master_port |-> master]
            ELSE IF def1 /\ def2 THEN [err |-> "ValueError", master_port |-> master]
            ELSE ValidateFields(port1, port2, fields, k + 1,
                    Append(master, [field |-> fields[k],
                                    port |-> IF def1 THEN port1 ELSE port2]))

ValidatePorts(port1, port2) ==
    LET port_1 == ModelPorts(port1.component.model, port1.port_id)
        port_2 == ModelPorts(port2.component.model, port2.port_id)
    IN IF port_1 = None \/ port_2 = None
       THEN [err |-> "ValueError", master_port |-> <<>>]
       ELSE IF port_1[1].port_type # port_2[1].port_type
       THEN [err |-> "ValueError", master_port |-> <<>>]
       ELSE ValidateFields(port1, port2, PortTypeFields(port_1[1].port_type), 1, <<>>)

AddNode(id, m) ==
    /\ pc = "idle"
    /\ nodes' = DictPut(nodes, Component(m, id))
    /\ err' = "none"
    /\ UNCHANGED <<exportVars, algebraVars>>
    /\ UNCHANGED <<components, connections, database, pc, contextVars, buildVars>>

AddComponent(id, m) ==
    /\ pc = "idle"
    /\ components' = DictPut(components, Component(m, id))
    /\ err' = "none"
    /\ UNCHANGED <<exportVars, algebraVars>>
    /\ UNCHANGED <<nodes, connections, database, pc, contextVars, buildVars>>

Connect(port1, port2) ==
    /\ pc = "idle"
    /\ Len(connections) < MaxConnections
    /\ LET v == ValidatePorts(port1, port2)
       IN IF v.err # "none"
          THEN /\ err' = v.err
               /\ UNCHANGED connections
          ELSE /\ err' = "none"
               /\ connections' = Append(connections,
                      [port1 |-> port1, port2 |-> port2, master_port |-> v.master_port])
    /\ UNCHANGED <<exportVars, algebraVars>>
    /\ UNCHANGED <<nodes, components, database, pc, contextVars, buildVars>>

(***************************************************************************)
(* data.py: the data base and its pre-flight consistency check.            *)
(***************************************************************************)
DataKinds == {"constant", "time", "scenario", "time_scenario"}

\* AbstractDataStructure.check_requirement of the four data classes
CheckRequirement(kind, time, scenario) ==
    CASE kind = "constant" -> TRUE
      [] kind = "time" -> time
      [] kind = "scenario" -> scenario
      [] kind = "time_scenario" -> time /\ scenario

\* the parameter loop of requirements_consistency for one component
RECURSIVE CheckParameters(_, _, _)
CheckParameters(component, params, k) ==
    IF k > Len(params) THEN "none"
    ELSE IF <<component.id, params[k].name>> \notin DOMAIN database THEN "KeyError"
    ELSE IF ~CheckRequirement(database[<<component.id, params[k].name>>],
                              params[k].time, params[k].scenario) THEN "ValueError"
    ELSE CheckParameters(component, params, k + 1)

\* DataBase.requirements_consistency: iterates network.components
RECURSIVE RequirementsConsistency(_, _)
RequirementsConsistency(comps, i) ==
    IF i > Len(comps) THEN "none"
    ELSE LET e == CheckParameters(comps[i], ModelOf(comps[i].model).parameters, 1)
         IN IF e # "none" THEN e ELSE RequirementsConsistency(comps, i + 1)

\* DataBase.add_data: self._data[ComponentParameterIndex(...)] = data
AddData(component_id, parameter_name, kind) ==
    /\ pc = "idle"
    /\ \/ <<component_id, parameter_name>> \in DOMAIN database
       \/ Cardinality(DOMAIN database) < MaxData
    /\ database' = (<<component_id, parameter_name>> :> kind) @@
                      [k \in DOMAIN database \ {<<component_id, parameter_name>>} |->
                          database[k]]
    /\ err' = "none"
    /\ UNCHANGED <<exportVars, algebraVars>>
    /\ UNCHANGED <<networkVars, pc, contextVars, buildVars>>

(***************************************************************************)
(* optimization.py: OptimizationContext.                                   *)
(***************************************************************************)
ProblemTypes == {"simulator", "xpansion_merged", "xpansion_master", "xpansion_subproblem"}

BorderManagements == {"CYCLE", "IGNORE"}

Ok(v) == [err |-> "none", value |-> v]

Raise(e) == [err |-> e, value |-> 0]

\* range(n) as a sequence
RangeSeq(n) == [i \in 1..n |-> i - 1]

RECURSIVE Concat(_)
Concat(seqs) == IF seqs = <<>> THEN <<>> ELSE Head(seqs) \o Concat(Tail(seqs))

\* mutant: CYCLE leaves the timestep as it is
ManageBorderTimestepsNoWrap(timestep) ==
    IF border = "CYCLE" THEN Ok(timestep)
    ELSE Raise("NotImplementedError")

\* mutant: every policy wraps
ManageBorderTimestepsAlwaysCycle(timestep) == Ok(timestep % block_length)

ManageBorderTimesteps(timestep) ==
    IF border = "CYCLE" THEN Ok(timestep % block_length)
    ELSE Raise("NotImplementedError")

\* mutant: every variable is indexed by every timestep of the block
GetTimeIndicesAll(time) == RangeSeq(block_length)

GetTimeIndices(time) == IF time THEN RangeSeq(block_length) ELSE RangeSeq(1)

GetScenarioIndices(scenario) == IF scenario THEN RangeSeq(scenarios) ELSE RangeSeq(1)

VariableKey(component_id, variable_name, block_timestep, scenario) ==
    <<component_id, variable_name, block_timestep, scenario>>

\* mutant: the scenario of the caller is kept for a scenario-invariant variable
LookupKeyCallerScenario(block_timestep, scenario, component_id, variable_name, structure) ==
    LET managed == ManageBorderTimesteps(block_timestep)
    IN IF managed.err # "none" THEN managed
       ELSE Ok(VariableKey(component_id, variable_name,
                           IF structure.time = FALSE THEN 0 ELSE managed.value,
                           scenario))

\* the key get_component_variable reads, once the border policy has passed
LookupKey(block_timestep, scenario, component_id, variable_name, structure) ==
    LET managed == ManageBorderTimesteps(block_timestep)
    IN IF managed.err # "none" THEN managed
       ELSE Ok(VariableKey(component_id, variable_name,
                           IF structure.time = FALSE THEN 0 ELSE managed.value,
                           IF structure.scenario = FALSE THEN 0 ELSE scenario))

\* the read of the registry under the key: a missing key is a KeyError
ReadKey(registry, key) ==
    IF key.err # "none" THEN key
    ELSE IF key.value \notin DOMAIN registry THEN Raise("KeyError")
    ELSE Ok(registry[key.value])

GetComponentVariable(registry, block_timestep, scenario, component_id, variable_name, structure) ==
    ReadKey(registry,
            LookupKey(block_timestep, scenario, component_id, variable_name, structure))

RegisterComponentVariable(registry, block_timestep, scenario, component_id, variable_name, variable) ==
    (VariableKey(component_id, variable_name, block_timestep, scenario) :> variable)
        @@ registry

\* get_or_add(dict, key, []).append(expression)
RegisterConnectionFieldsExpressions(registry, component_id, port_name, field_name, expression) ==
    LET key == <<component_id, port_name, field_name>>
    IN IF key \in DOMAIN registry
       THEN [registry EXCEPT ![key] = Append(@, expression)]
       ELSE (key :> <<expression>>) @@ registry

(***************************************************************************)
(* Expression instantiation.                                               *)
(***************************************************************************)
\* add_component_context: scope the bare references with the component id
AddComponentContext(component_id, expression) ==
    [expression EXCEPT !.terms =
        [k \in 1..Len(expression.terms) |->
            IF expression.terms[k].component_id = ""
            THEN [expression.terms[k] EXCEPT !.component_id = component_id]
            ELSE expression.terms[k]]]

(***************************************************************************)
(* optimization.py: OptimizationProblem, the four phases.                  *)
(***************************************************************************)
\* mutant: the constraints are created before the variables
NextPhaseSwapped(phase) ==
    CASE phase = "connections" -> "constraints"
      [] phase = "constraints" -> "variables"
      [] phase = "variables" -> "objectives"
      [] phase = "objectives" -> "done"

\* the statement that follows a phase in OptimizationProblem.__init__
NextPhase(phase) ==
    CASE phase = "connections" -> "variables"
      [] phase = "variables" -> "constraints"
      [] phase = "constraints" -> "objectives"
      [] phase = "objectives" -> "done"

EmptyObjective == [coefficients |-> <<>>, offset |-> 0]

BuildProblem(problem_type, border_management, length, scenario_count) ==
    /\ pc = "idle"
    /\ LET e == RequirementsConsistency(components, 1)
       IN IF e # "none"
          THEN /\ pc' = "aborted"
               /\ err' = e
               /\ UNCHANGED <<contextVars, phases>>
          ELSE /\ pc' = "connections"
               /\ err' = "none"
               /\ ptype' = problem_type
               /\ border' = border_management
               /\ block_length' = length
               /\ scenarios' = scenario_count
               /\ phases' = <<"connections">>
    /\ UNCHANGED <<exportVars, algebraVars>>
    /\ UNCHANGED <<networkVars, database, idx, component_variables,
                   connection_fields_expressions, solver_vars, solver_rows,
                   objective, lookups, contributions>>

\* mutant: the definition is registered for the first endpoint only
RegisterFieldPort1Only(registry, cnx, k) ==
    LET field_name == cnx.master_port[k].field
        master_port == cnx.master_port[k].port
    IN RegisterConnectionFieldsExpressions(registry, cnx.port1.component.id,
          cnx.port1.port_id, field_name,
          AddComponentContext(master_port.component.id,
             PortFieldDefinition(master_port.component.model,
                                 master_port.port_id, field_name)))

\* the loop body of _register_connection_fields_definitions for one field
RegisterField(registry, cnx, k) ==
    LET field_name == cnx.master_port[k].field
        master_port == cnx.master_port[k].port
        expression_node == PortFieldDefinition(master_port.component.model,
                                               master_port.port_id, field_name)
        instantiated_expression ==
            AddComponentContext(master_port.component.id, expression_node)
        first == RegisterConnectionFieldsExpressions(registry, cnx.port1.component.id,
                    cnx.port1.port_id, field_name, instantiated_expression)
    IN RegisterConnectionFieldsExpressions(first, cnx.port2.component.id,
            cnx.port2.port_id, field_name, instantiated_expression)

RECURSIVE RegisterFields(_, _, _)
RegisterFields(registry, cnx, k) ==
    IF k > Len(cnx.master_port) THEN registry
    ELSE RegisterFields(RegisterField(registry, cnx, k), cnx, k + 1)

RECURSIVE RegisterConnections(_, _)
RegisterConnections(registry, i) ==
    IF i > Len(connections) THEN registry
    ELSE RegisterConnections(RegisterFields(registry, connections[i], 1), i + 1)

RegisterConnectionFieldsDefinitions ==
    /\ pc = "connections"
    /\ connection_fields_expressions' =
          RegisterConnections(connection_fields_expressions, 1)
    /\ pc' = NextPhase(pc)
    /\ phases' = Append(phases, NextPhase(pc))
    /\ idx' = 1
    /\ UNCHANGED <<exportVars, algebraVars>>
    /\ UNCHANGED <<networkVars, database, err, contextVars, component_variables,
                   solver_vars, solver_rows, objective, lookups, contributions>>

\* mutant: an xpansion_subproblem also leaves out the investment variables
SkipVariableInvestment(problem_type, model_var) ==
    \/ problem_type = "xpansion_master" /\ model_var.context = "operational"
    \/ problem_type = "xpansion_subproblem" /\ model_var.context = "investment"

\* mutant: no variable is ever left out
SkipVariableNever(problem_type, model_var) == FALSE

\* a variable is left out of an xpansion_master problem when it is operational
SkipVariable(problem_type, model_var) ==
    problem_type = "xpansion_master" /\ model_var.context = "operational"

\* the (timestep, scenario) pairs of one variable, in creation order
VariableInstances(model_var) ==
    LET ts == GetTimeIndices(model_var.time)
        ss == GetScenarioIndices(model_var.scenario)
    IN Concat([i \in 1..Len(ts) |->
                 [j \in 1..Len(ss) |->
                    [model_var |-> model_var, block_timestep |-> ts[i],
                     scenario |-> ss[j]]]])

\* the variables of one component that the problem type keeps, with their indices
ComponentInstances(component) ==
    LET mvars == ModelOf(component.model).variables
    IN Concat([k \in 1..Len(mvars) |->
                 IF SkipVariable(ptype, mvars[k]) THEN <<>>
                 ELSE VariableInstances(mvars[k])])

\* solver.NumVar(lower_bound, upper_bound, name): bounds default to -inf, +inf
NumVar(model_var) ==
    [name |-> model_var.name,
     lb |-> IF model_var.lower_bound # None THEN model_var.lower_bound[1] ELSE -Infinity,
     ub |-> IF model_var.upper_bound # None THEN model_var.upper_bound[1] ELSE Infinity]

\* the innermost loop body of _create_variables, folded over the instances:
\* create the solver variable, then ComponentContext.add_variable
RECURSIVE CreateInstances(_, _, _, _)
CreateInstances(component, items, k, acc) ==
    IF k > Len(items) THEN acc
    ELSE LET solver_var == NumVar(items[k].model_var)
             handle == Len(acc.solver_vars) + 1
         IN CreateInstances(component, items, k + 1,
              [solver_vars |-> Append(acc.solver_vars, solver_var),
               registry |-> RegisterComponentVariable(acc.registry,
                               items[k].block_timestep, items[k].scenario,
                               component.id, solver_var.name, handle)])

\* one iteration of the component loop of _create_variables
CreateVariables ==
    /\ pc = "variables"
    /\ idx <= Len(AllComponents)
    /\ LET component == AllComponents[idx]
           acc == CreateInstances(component, ComponentInstances(component), 1,
                     [solver_vars |-> solver_vars, registry |-> component_variables])
       IN /\ solver_vars' = acc.solver_vars
          /\ component_variables' = acc.registry
    /\ idx' = idx + 1
    /\ UNCHANGED <<exportVars, algebraVars>>
    /\ UNCHANGED <<networkVars, database, pc, err, contextVars, phases,
                   connection_fields_expressions, solver_rows, objective,
                   lookups, contributions>>

\* a phase returns once its component loop is exhausted; __init__ moves on
EndPhase ==
    /\ pc \in {"variables", "constraints", "objectives"}
    /\ idx > Len(AllComponents)
    /\ pc' = NextPhase(pc)
    /\ phases' = IF NextPhase(pc) = "done" THEN phases ELSE Append(phases, NextPhase(pc))
    /\ idx' = 1
    /\ UNCHANGED <<exportVars, algebraVars>>
    /\ UNCHANGED <<networkVars, database, err, contextVars, component_variables,
                   connection_fields_expressions, solver_vars, solver_rows,
                   objective, lookups, contributions>>

(***************************************************************************)
(* Instantiation and linearization of a model expression.                  *)
(***************************************************************************)
RECURSIVE SumConstants(_)
SumConstants(exprs) ==
    IF exprs = <<>> THEN 0 ELSE Head(exprs).constant + SumConstants(Tail(exprs))

\* resolve_port: every port field is replaced by the sum of the expressions
\* registered for (component, port, field)
RECURSIVE ResolvePort(_, _, _, _)
ResolvePort(component_id, refs, k, acc) ==
    IF k > Len(refs) THEN acc
    ELSE LET key == <<component_id, refs[k].port_name, refs[k].field_name>>
         IN IF key \notin DOMAIN connection_fields_expressions
            THEN [acc EXCEPT !.err = "ConfigurationError"]
            ELSE LET exprs == connection_fields_expressions[key]
                 IN ResolvePort(component_id, refs, k + 1,
                      [err |-> "none",
                       terms |-> acc.terms
                                 \o Concat([i \in 1..Len(exprs) |-> exprs[i].terms]),
                       constant |-> acc.constant + SumConstants(exprs)])

InstantiateModelExpression(model_expression, component_id) ==
    LET with_component == AddComponentContext(component_id, model_expression)
    IN ResolvePort(component_id, with_component.port_fields, 1,
          [err |-> "none", terms |-> with_component.terms,
           constant |-> with_component.constant])

\* _make_data_structure_provider.get_component_variable_structure:
\* network.get_component(id).model.variables[name].structure
GetComponentVariableStructure(component_id, name) ==
    IF ~HasId(components, component_id) THEN Raise("KeyError")
    ELSE LET mvars == ModelOf(DictGet(components, component_id).model).variables
             hit == {k \in 1..Len(mvars) : mvars[k].name = name}
         IN IF hit = {} THEN Raise("KeyError")
            ELSE LET v == mvars[CHOOSE k \in hit : TRUE]
                 IN Ok([time |-> v.time, scenario |-> v.scenario])

TermKey(term) ==
    <<term.component_id, term.variable_name, term.time_operator,
      term.time_aggregator, term.scenario_operator>>

\* terms with the same key merge by summing their coefficients
RECURSIVE MergeTerms(_, _)
MergeTerms(terms, acc) ==
    IF terms = <<>> THEN acc
    ELSE LET t == Head(terms)
             hit == {k \in 1..Len(acc) : TermKey(acc[k]) = TermKey(t)}
         IN IF hit = {} THEN MergeTerms(Tail(terms), Append(acc, t))
            ELSE MergeTerms(Tail(terms),
                   [k \in 1..Len(acc) |->
                      IF k \in hit
                      THEN [acc[k] EXCEPT !.coefficient = @ + t.coefficient]
                      ELSE acc[k]])

\* a term whose coefficient is zero is removed from the expression
RemoveZeros(terms) == SelectSeq(terms, LAMBDA t : t.coefficient # 0)

RECURSIVE WithStructure(_, _, _)
\* the Term of a scoped reference, with the structure the provider gives
StructuredTerm(terms, k, acc, st) ==
    IF st.err # "none" THEN st
    ELSE WithStructure(terms, k + 1,
           Append(acc, [component_id |-> terms[k].component_id,
                        variable_name |-> terms[k].variable_name,
                        coefficient |-> terms[k].coefficient,
                        structure |-> st.value,
                        time_operator |-> terms[k].time_operator,
                        time_aggregator |-> terms[k].time_aggregator,
                        scenario_operator |-> terms[k].scenario_operator]))

WithStructure(terms, k, acc) ==
    IF k > Len(terms) THEN Ok(acc)
    ELSE StructuredTerm(terms, k, acc,
            GetComponentVariableStructure(terms[k].component_id,
                                          terms[k].variable_name))

\* the LinearExpression of the structured terms: merged, zeros removed
Linearized(structured, constant) ==
    IF structured.err # "none"
    THEN [err |-> structured.err, terms |-> <<>>, constant |-> 0]
    ELSE [err |-> "none",
          terms |-> RemoveZeros(MergeTerms(structured.value, <<>>)),
          constant |-> constant]

\* ComponentContext.linearize_expression: the LinearExpression of an
\* instantiated expression
LinearizeExpression(terms, constant) ==
    Linearized(WithStructure(terms, 1, <<>>), constant)

Max(a, b) == IF a >= b THEN a ELSE b

\* mutant: one instance whatever the time operators of the terms
NumberOfInstancesSingle(terms) == 1

\* LinearExpression.number_of_instances
RECURSIVE NumberOfInstances(_)
NumberOfInstances(terms) ==
    IF terms = <<>> THEN 1
    ELSE Max(IF Head(terms).time_operator.kind = "none" THEN 1
             ELSE Len(Head(terms).time_operator.time_ids),
             NumberOfInstances(Tail(terms)))

\* compute_indexation of a linear body: the OR of the structures it touches
RECURSIVE ComputeIndexation(_)
ComputeIndexation(terms) ==
    IF terms = <<>> THEN [time |-> FALSE, scenario |-> FALSE]
    ELSE LET rest == ComputeIndexation(Tail(terms))
         IN [time |-> Head(terms).structure.time \/ rest.time,
             scenario |-> Head(terms).structure.scenario \/ rest.scenario]

NonTrivial(structure) == structure.time \/ structure.scenario

\* _get_indexing: body or lower bound or upper bound
GetIndexing(body, lower_bound, upper_bound) ==
    IF NonTrivial(body) THEN body
    ELSE IF NonTrivial([time |-> lower_bound.time, scenario |-> lower_bound.scenario])
    THEN [time |-> lower_bound.time, scenario |-> lower_bound.scenario]
    ELSE [time |-> upper_bound.time, scenario |-> upper_bound.scenario]

\* the value of a bound expression at (block_timestep, scenario)
GetValue(bound, block_timestep, scenario) ==
    bound.value + (IF bound.time THEN block_timestep ELSE 0)
                + (IF bound.scenario THEN scenario ELSE 0)

(***************************************************************************)
(* Term -> solver variables, constraint rows, objective.  The state that   *)
(* a call threads is a record with an err field: once err is set, the      *)
(* remaining steps are skipped and what was written before stays written.  *)
(***************************************************************************)
\* mutant: the indices of an Evaluation are taken relative to the timestep
TermTimestepsRelative(term, block_timestep, instance) ==
    LET ids == term.time_operator.time_ids
    IN IF term.time_aggregator = "sum"
       THEN IF term.time_operator.kind \in {"shift", "eval"}
            THEN Ok([k \in 1..Len(ids) |-> block_timestep + ids[k]])
            ELSE Ok([k \in 1..block_length |-> block_timestep + (k - 1)])
       ELSE IF term.time_operator.kind \in {"shift", "eval"}
            THEN IF instance + 1 > Len(ids) THEN Raise("IndexError")
                 ELSE Ok(<<block_timestep + ids[instance + 1]>>)
            ELSE Ok(<<block_timestep>>)

\* the timesteps _get_solver_vars asks for, before the border policy
TermTimesteps(term, block_timestep, instance) ==
    LET ids == term.time_operator.time_ids
    IN IF term.time_aggregator = "sum"
       THEN IF term.time_operator.kind = "shift"
            THEN Ok([k \in 1..Len(ids) |-> block_timestep + ids[k]])
            ELSE IF term.time_operator.kind = "eval"
            THEN Ok(ids)
            ELSE Ok([k \in 1..block_length |-> block_timestep + (k - 1)])
       ELSE IF term.time_operator.kind = "shift"
            THEN IF instance + 1 > Len(ids) THEN Raise("IndexError")
                 ELSE Ok(<<block_timestep + ids[instance + 1]>>)
            ELSE IF term.time_operator.kind = "eval"
            THEN IF instance + 1 > Len(ids) THEN Raise("IndexError")
                 ELSE Ok(<<ids[instance + 1]>>)
            ELSE Ok(<<block_timestep>>)

Lookup(term, timestep, scenario) ==
    [block_timestep |-> timestep, scenario |-> scenario,
     component_id |-> term.component_id, variable_name |-> term.variable_name,
     structure |-> term.structure]

RECURSIVE LookupAll(_, _, _, _, _)
\* solver_vars.append(context.get_component_variable(...)) for one timestep
LookupOne(term, timesteps, scenario, k, acc, r) ==
    IF r.err # "none"
    THEN [err |-> r.err, solver_vars |-> <<>>,
          lookups |-> acc.lookups \cup {Lookup(term, timesteps[k], scenario)}]
    ELSE LookupAll(term, timesteps, scenario, k + 1,
           [err |-> "none", solver_vars |-> Append(acc.solver_vars, r.value),
            lookups |-> acc.lookups \cup {Lookup(term, timesteps[k], scenario)}])

LookupAll(term, timesteps, scenario, k, acc) ==
    IF k > Len(timesteps) THEN acc
    ELSE LookupOne(term, timesteps, scenario, k, acc,
            GetComponentVariable(component_variables, timesteps[k], scenario,
                term.component_id, term.variable_name, term.structure))

\* _get_solver_vars; seen is the set of lookups made before the call
GetSolverVars(term, block_timestep, scenario, instance, seen) ==
    LET ts == TermTimesteps(term, block_timestep, instance)
    IN IF ts.err # "none"
       THEN [err |-> ts.err, solver_vars |-> <<>>, lookups |-> seen]
       ELSE LookupAll(term, ts.value, scenario, 1,
               [err |-> "none", solver_vars |-> <<>>, lookups |-> seen])

\* GetCoefficient of a row or of the objective: 0 for a variable never set
GetCoefficient(coefficients, solver_var) ==
    IF solver_var \in DOMAIN coefficients THEN coefficients[solver_var] ELSE 0

SetCoefficient(coefficients, solver_var, coefficient) ==
    (solver_var :> coefficient) @@ coefficients

\* mutant: the coefficient of a variable is overwritten, not added to
RECURSIVE AddToCoefficientsOverwrite(_, _, _)
AddToCoefficientsOverwrite(coefficients, solver_vars_, amount) ==
    IF solver_vars_ = <<>> THEN coefficients
    ELSE AddToCoefficientsOverwrite(
            SetCoefficient(coefficients, Head(solver_vars_), amount),
            Tail(solver_vars_), amount)

\* coefficient = term.coefficient + GetCoefficient(solver_var), for each
\* solver variable of the term
RECURSIVE AddToCoefficients(_, _, _)
AddToCoefficients(coefficients, solver_vars_, amount) ==
    IF solver_vars_ = <<>> THEN coefficients
    ELSE AddToCoefficients(
            SetCoefficient(coefficients, Head(solver_vars_),
                           amount + GetCoefficient(coefficients, Head(solver_vars_))),
            Tail(solver_vars_), amount)

\* float arithmetic on a bound: an infinite bound stays infinite
BoundMinus(bound, constant) ==
    IF bound >= Infinity THEN Infinity
    ELSE IF bound <= -Infinity THEN -Infinity
    ELSE bound - constant

\* the row created last takes the coefficient of a term on each of its
\* solver variables
RowTerm(st, term, got) ==
    IF got.err # "none"
    THEN [st EXCEPT !.err = got.err, !.lookups = got.lookups]
    ELSE [st EXCEPT !.lookups = got.lookups,
                    !.rows[Len(st.rows)].coefficients =
                        AddToCoefficients(@, got.solver_vars, term.coefficient)]

\* the term loop of make_constraint on the row created last
RECURSIVE RowTerms(_, _, _, _, _, _)
RowTerms(st, terms, k, block_timestep, scenario, instance) ==
    IF k > Len(terms) \/ st.err # "none" THEN st
    ELSE RowTerms(
           RowTerm(st, terms[k],
                   GetSolverVars(terms[k], block_timestep, scenario, instance,
                                 st.lookups)),
           terms, k + 1, block_timestep, scenario, instance)

\* the name of the row of an instance: constraint_name += f"_{instance}"
InstanceName(constraint_name, instance, instances) ==
    IF instances > 1 THEN Append(constraint_name, instance) ELSE constraint_name

\* solver.Constraint(constraint_name): a new row, unbounded until SetBounds
NewRow(st, name, block_timestep, scenario) ==
    [st EXCEPT !.rows = Append(@,
        [name |-> name, coefficients |-> <<>>,
         lb |-> -Infinity, ub |-> Infinity,
         block_timestep |-> block_timestep, scenario |-> scenario])]

\* solver_constraint.SetBounds(lower_bound - constant, upper_bound - constant)
SetBounds(st, data) ==
    IF st.err # "none" THEN st
    ELSE [st EXCEPT
            !.rows[Len(st.rows)].lb =
                BoundMinus(data.lower_bound, 0 + data.expression.constant),
            !.rows[Len(st.rows)].ub =
                BoundMinus(data.upper_bound, 0 + data.expression.constant)]

\* make_constraint; a name is the declared name followed by its suffixes
RECURSIVE MakeConstraint(_, _, _, _, _, _, _)
MakeConstraint(st, block_timestep, scenario, data, instances, instance, constraint_name) ==
    IF instance >= instances \/ st.err # "none" THEN st
    ELSE MakeConstraint(
           SetBounds(
              RowTerms(NewRow(st, InstanceName(constraint_name, instance, instances),
                              block_timestep, scenario),
                       data.expression.terms, 1, block_timestep, scenario, instance),
              data),
           block_timestep, scenario, data, instances, instance + 1,
           InstanceName(constraint_name, instance, instances))

\* ConstraintData at (block_timestep, scenario)
ConstraintData(constraint, linear_expr, block_timestep, scenario) ==
    [name |-> <<constraint.name>>,
     lower_bound |-> GetValue(constraint.lower_bound, block_timestep, scenario),
     upper_bound |-> GetValue(constraint.upper_bound, block_timestep, scenario),
     expression |-> linear_expr]

\* the (timestep, scenario) loop of _create_constraint
RECURSIVE ConstraintRows(_, _, _, _, _, _)
ConstraintRows(st, constraint, linear_expr, instances, pairs, k) ==
    IF k > Len(pairs) \/ st.err # "none" THEN st
    ELSE ConstraintRows(
           MakeConstraint(st, pairs[k][1], pairs[k][2],
                          ConstraintData(constraint, linear_expr,
                                         pairs[k][1], pairs[k][2]),
                          instances, 0, <<constraint.name>>),
           constraint, linear_expr, instances, pairs, k + 1)

IndexPairs(indexing) ==
    LET ts == GetTimeIndices(indexing.time)
        ss == GetScenarioIndices(indexing.scenario)
    IN Concat([i \in 1..Len(ts) |-> [j \in 1..Len(ss) |-> <<ts[i], ss[j]>>]])

\* _create_constraint, once the body is linearized
CreateLinearized(st, constraint, linear_expr) ==
    IF linear_expr.err # "none" THEN [st EXCEPT !.err = linear_expr.err]
    ELSE ConstraintRows(st, constraint, linear_expr,
            NumberOfInstances(linear_expr.terms),
            IndexPairs(GetIndexing(ComputeIndexation(linear_expr.terms),
                                   constraint.lower_bound, constraint.upper_bound)),
            1)

\* _create_constraint, once the body is instantiated
CreateInstantiated(st, constraint, inst) ==
    IF inst.err # "none" THEN [st EXCEPT !.err = inst.err]
    ELSE CreateLinearized(st, constraint,
                          LinearizeExpression(inst.terms, inst.constant))

\* the body of the constraint loop of _create_constraints, with _create_constraint
CreateConstraint(st, component, constraint) ==
    CreateInstantiated(st, constraint,
        InstantiateModelExpression(constraint.expression, component.id))

RECURSIVE ComponentConstraints(_, _, _, _)
ComponentConstraints(st, component, constraints, k) ==
    IF k > Len(constraints) \/ st.err # "none" THEN st
    ELSE ComponentConstraints(CreateConstraint(st, component, constraints[k]),
                              component, constraints, k + 1)

\* what the constraints of one component leave behind
ConstraintsCreated(st) ==
    /\ solver_rows' = st.rows
    /\ lookups' = st.lookups
    /\ err' = st.err
    /\ pc' = IF st.err # "none" THEN "aborted" ELSE pc

\* one iteration of the component loop of _create_constraints
CreateConstraints ==
    /\ pc = "constraints"
    /\ idx <= Len(AllComponents)
    /\ ConstraintsCreated(
          ComponentConstraints(
             [err |-> "none", rows |-> solver_rows, lookups |-> lookups],
             AllComponents[idx], ModelOf(AllComponents[idx].model).constraints, 1))
    /\ idx' = idx + 1
    /\ UNCHANGED <<exportVars, algebraVars>>
    /\ UNCHANGED <<networkVars, database, contextVars, phases, component_variables,
                   connection_fields_expressions, solver_vars, objective,
                   contributions>>

\* the objective takes weight * coefficient of a term on each solver variable.
\* Coefficients of the objective are kept multiplied by the scenario count, so
\* that the weight 1/scenarios of an Expectation term is exact:
\* weight_times_scenarios is 1 for Expectation and scenarios otherwise.
ObjectiveTerm(st, term, weight_times_scenarios, got) ==
    IF got.err # "none"
    THEN [st EXCEPT !.err = got.err, !.lookups = got.lookups]
    ELSE [st EXCEPT !.lookups = got.lookups,
                    !.objective.coefficients =
                        AddToCoefficients(@, got.solver_vars,
                                          weight_times_scenarios * term.coefficient)]

\* the scenario loop of _create_objective for one term
RECURSIVE ObjectiveScenarios(_, _, _, _, _)
ObjectiveScenarios(st, term, weight_times_scenarios, scenario_ids, k) ==
    IF k > Len(scenario_ids) \/ st.err # "none" THEN st
    ELSE ObjectiveScenarios(
           ObjectiveTerm(st, term, weight_times_scenarios,
                         GetSolverVars(term, 0, scenario_ids[k], 0, st.lookups)),
           term, weight_times_scenarios, scenario_ids, k + 1)

\* mutant: an Expectation term adds its full coefficient in every scenario
RECURSIVE ObjectiveTermsUnweighted(_, _, _)
ObjectiveTermsUnweighted(st, terms, k) ==
    IF k > Len(terms) \/ st.err # "none" THEN st
    ELSE ObjectiveTermsUnweighted(
            ObjectiveScenarios(st, terms[k], scenarios,
                IF terms[k].scenario_operator = "expec" THEN RangeSeq(scenarios)
                ELSE RangeSeq(1),
                1),
            terms, k + 1)

\* the term loop of _create_objective: weight and scenarios of each term
RECURSIVE ObjectiveTerms(_, _, _)
ObjectiveTerms(st, terms, k) ==
    IF k > Len(terms) \/ st.err # "none" THEN st
    ELSE ObjectiveTerms(
            ObjectiveScenarios(st, terms[k],
                IF terms[k].scenario_operator = "expec" THEN 1 ELSE scenarios,
                IF terms[k].scenario_operator = "expec" THEN RangeSeq(scenarios)
                ELSE RangeSeq(1),
                1),
            terms, k + 1)

\* obj.SetOffset(linear_expr.constant + obj.offset()), after the term loop
SetOffset(st, component, kind, linear_expr) ==
    IF st.err # "none" THEN st
    ELSE [st EXCEPT
            !.objective.offset = linear_expr.constant + @,
            !.contributions = Append(@, [component_id |-> component.id,
                                         kind |-> kind,
                                         expression |-> linear_expr])]

\* _create_objective, once the contribution is linearized
ObjectiveLinearized(st, component, kind, linear_expr) ==
    IF linear_expr.err # "none" THEN [st EXCEPT !.err = linear_expr.err]
    ELSE SetOffset(ObjectiveTerms(st, linear_expr.terms, 1),
                   component, kind, linear_expr)

\* the contribution with the references of the component, linearized at (0, 0)
LinearizeContribution(scoped) == LinearizeExpression(scoped.terms, scoped.constant)

\* _create_objective
CreateObjective(st, component, kind, objective_contribution) ==
    IF st.err # "none" THEN st
    ELSE ObjectiveLinearized(st, component, kind,
            LinearizeContribution(
                AddComponentContext(component.id, objective_contribution)))

\* mutant: the operational contribution is never added
IncludeOperationalNever(problem_type) == FALSE

IncludeOperational(problem_type) == problem_type # "xpansion_master"

\* mutant: the investment contribution is added whatever the problem type
IncludeInvestmentAlways(problem_type) == TRUE

IncludeInvestment(problem_type) == problem_type # "xpansion_subproblem"

OperationalObjective(st, component, contribution) ==
    IF IncludeOperational(ptype) /\ contribution # None
    THEN CreateObjective(st, component, "operational", contribution[1])
    ELSE st

InvestmentObjective(st, component, contribution) ==
    IF IncludeInvestment(ptype) /\ contribution # None
    THEN CreateObjective(st, component, "investment", contribution[1])
    ELSE st

\* the body of the component loop of _create_objectives
ComponentObjectives(st, component) ==
    InvestmentObjective(
        OperationalObjective(st, component,
            ModelOf(component.model).objective_operational_contribution),
        component, ModelOf(component.model).objective_investment_contribution)

\* what the contributions of one component leave behind
ObjectivesCreated(st) ==
    /\ objective' = st.objective
    /\ lookups' = st.lookups
    /\ contributions' = st.contributions
    /\ err' = st.err
    /\ pc' = IF st.err # "none" THEN "aborted" ELSE pc

\* one iteration of the component loop of _create_objectives
CreateObjectives ==
    /\ pc = "objectives"
    /\ idx <= Len(AllComponents)
    /\ ObjectivesCreated(
          ComponentObjectives(
             [err |-> "none", objective |-> objective, lookups |-> lookups,
              contributions |-> contributions],
             AllComponents[idx]))
    /\ idx' = idx + 1
    /\ UNCHANGED <<exportVars, algebraVars>>
    /\ UNCHANGED <<networkVars, database, contextVars, phases, component_variables,
                   connection_fields_expressions, solver_vars, solver_rows>>

(***************************************************************************)
(* optimization.py: export_xpansion_problem.  The text of an export is a   *)
(* sequence of lines: section headers, and data lines of the COLUMNS       *)
(* section, of which the scan reads the variable (first field) and whether *)
(* the line mentions COST.                                                 *)
(***************************************************************************)
Header(name) ==
    [kind |-> "header", text |-> name, rows |-> <<>>, column |-> 0, cost |-> FALSE]

\* "COST" in name, for the names of the explored texts
ContainsCost(name) == name \in {"COST", "XCOST"}

\* a line of the COLUMNS section: the name of the variable and the rows of
\* its entries on that line; column is the position of the solver variable
\* the line belongs to, and cost is what "COST" in column gives on the line
Column(position, variable, rows) ==
    [kind |-> "data", text |-> variable, rows |-> rows, column |-> position,
     cost |-> ContainsCost(variable) \/ \E r \in Range(rows) : ContainsCost(r)]

\* the n-th name an exporter that makes names unique gives to a name
UniqueName(name, n) ==
    IF n = 0 THEN name
    ELSE CASE name = "cap" -> "cap_1"
           [] name = "gen" -> "gen_1"

\* ExportModelAsMpsFormat(fixed_format=True, obfuscated=False) of a problem
\* with the solver variables given in creation order, each in the objective
\* or in a row: one line per variable, under the variable's name, or under
\* a name made unique when unique is set
ExportAsMps(variables, unique) ==
    <<Header("ROWS"), Header("COLUMNS")>>
    \o [i \in 1..Len(variables) |->
          Column(i - 1,
                 IF unique
                 THEN UniqueName(variables[i].name,
                         Cardinality({k \in 1..(i - 1) :
                                        variables[k].name = variables[i].name}))
                 ELSE variables[i].name,
                 IF variables[i].objective THEN <<"COST">> ELSE <<"c1">>)]
    \o <<Header("ENDATA")>>

\* the solver variables of a master built for two generators (one cap each)
\* and of a subproblem built for one generator over two timesteps
BuiltVariables ==
    {<<[name |-> "cap", objective |-> TRUE], [name |-> "cap", objective |-> TRUE]>>,
     <<[name |-> "gen", objective |-> TRUE], [name |-> "gen", objective |-> TRUE],
       [name |-> "cap", objective |-> FALSE]>>}

\* the texts export_as_mps gives in the explored runs
MpsTexts ==
    {<<Header("ROWS"), Header("COLUMNS"), Column(0, "x", <<"COST", "c1">>),
       Column(1, "y", <<"c1">>), Header("RHS"), Header("ENDATA")>>,
     <<Header("ROWS"), Header("COLUMNS"), Column(0, "y", <<"COST", "c1">>),
       Column(0, "y", <<"COST", "c1">>), Column(1, "x", <<"COST">>),
       Header("BOUNDS"), Header("ENDATA")>>,
     <<Header("ROWS"), Header("COLUMNS"), Column(0, "y", <<"c1">>),
       Column(1, "x", <<"c1">>), Header("ENDATA")>>,
     <<Header("ROWS"), Header("COLUMNS"), Column(0, "x", <<"COST">>),
       Header("RANGES"), Header("ENDATA")>>,
     <<Header("ROWS"), Header("RHS"), Header("ENDATA")>>,
     <<Header("ROWS"), Header("COLUMNS"), Column(0, "XCOST", <<"c1">>),
       Column(1, "x", <<"COST">>), Header("ENDATA")>>}
    \cup {ExportAsMps(variables, unique) :
             variables \in BuiltVariables, unique \in BOOLEAN}

ProblemNames == {"master", "subproblem"}

Problem(name, mps) == [name |-> name, mps |-> mps]

RECURSIVE ProblemLists(_)
ProblemLists(n) ==
    IF n = 0 THEN {<<>>}
    ELSE ProblemLists(n - 1)
         \cup {Append(l, Problem(name, mps)) :
                 l \in {q \in ProblemLists(n - 1) : Len(q) = n - 1},
                 name \in ProblemNames, mps \in MpsTexts}

\* dict[key] = value on an insertion-ordered dict of [key, value] entries
DictSet(dict, key, value) ==
    IF \E i \in 1..Len(dict) : dict[i].key = key
    THEN [i \in 1..Len(dict) |->
            IF dict[i].key = key THEN [key |-> key, value |-> value] ELSE dict[i]]
    ELSE Append(dict, [key |-> key, value |-> value])

\* mutant: the lines after COLUMNS are taken whatever section follows them,
\* and a text without COLUMNS gives an empty section
SearchLenient(text) ==
    LET starts == {i \in 1..Len(text) : text[i] = Header("COLUMNS")}
    IN IF starts = {} THEN Some(<<>>)
       ELSE LET i == CHOOSE m \in starts : \A n \in starts : m <= n
            IN Some(SelectSeq(SubSeq(text, i + 1, Len(text)),
                              LAMBDA l : l.kind = "data"))

\* prog.search: group 1 of COLUMNS\n(( .*\n)*)(BOUNDS|RHS|ENDATA), the data
\* lines between the first COLUMNS header that matches and the header after
\* them; None when nothing matches
Search(text) ==
    LET ends(i) == {j \in (i + 1)..Len(text) :
                      /\ text[j] \in {Header("BOUNDS"), Header("RHS"), Header("ENDATA")}
                      /\ \A k \in (i + 1)..(j - 1) : text[k].kind = "data"}
        starts == {i \in 1..Len(text) : text[i] = Header("COLUMNS") /\ ends(i) # {}}
    IN IF starts = {} THEN None
       ELSE LET i == CHOOSE m \in starts : \A n \in starts : m <= n
                j == CHOOSE m \in ends(i) : TRUE
            IN Some(SubSeq(text, i + 1, j - 1))

\* the column loop over the master: seen_variables in order of first
\* encounter, and the candidates with their column index
RECURSIVE ScanMaster(_, _, _)
ScanMaster(columns, k, acc) ==
    IF k > Len(columns) THEN acc
    ELSE IF columns[k].text \in Range(acc.seen_variables)
    THEN ScanMaster(columns, k + 1, acc)
    ELSE ScanMaster(columns, k + 1,
           [seen_variables |-> Append(acc.seen_variables, columns[k].text),
            found |-> IF columns[k].cost
                      THEN DictSet(acc.found, columns[k].text, Len(acc.seen_variables))
                      ELSE acc.found])

\* the column loop over a subproblem: the index of the candidates of the master
RECURSIVE ScanSubproblem(_, _, _, _)
ScanSubproblem(columns, k, known, acc) ==
    IF k > Len(columns) THEN acc
    ELSE IF columns[k].text \in Range(acc.seen_variables)
    THEN ScanSubproblem(columns, k + 1, known, acc)
    ELSE ScanSubproblem(columns, k + 1, known,
           [seen_variables |-> Append(acc.seen_variables, columns[k].text),
            found |-> IF columns[k].text \in known
                      THEN DictSet(acc.found, columns[k].text, Len(acc.seen_variables))
                      ELSE acc.found])

NoScan == [seen_variables |-> <<>>, found |-> <<>>]

\* write_to_file(name, content, "outputs/lp"): the file is there when it
\* answers True
WriteToFile(name, content, ok) ==
    /\ written' = Append(written, [file |-> name, ok |-> ok])
    /\ files' = IF ok
                THEN (name :> content) @@ [f \in DOMAIN files \ {name} |-> files[f]]
                ELSE files

\* return False
ReturnFalse ==
    /\ result' = Some(FALSE)
    /\ xpc' = "returned"

\* mutant: only an empty list of problems is refused
TooFewOnlyEmpty(probs) == Len(probs) < 1

\* len(problems) < 2
TooFew(probs) == Len(probs) < 2

\* export_xpansion_problem up to the export of the master
ExportXpansionProblem(probs) ==
    /\ xpc = "idle"
    /\ problems' = probs
    /\ IF TooFew(probs)
       THEN /\ ReturnFalse
            /\ UNCHANGED <<problem_to_candidates, candidates>>
       ELSE /\ xpc' = "master"
            /\ problem_to_candidates' = <<>>
            /\ candidates' = {}
            /\ UNCHANGED result
    /\ UNCHANGED <<xi, exported, written, files, studyVars, algebraVars>>

\* the master: export, search, scan, write master.mps
ExportMaster(ok) ==
    /\ xpc = "master"
    /\ exported' = Append(exported, 1)
    /\ IF Search(problems[1].mps) = None
       THEN /\ ReturnFalse
            /\ problem_to_candidates' = DictSet(problem_to_candidates, "master", <<>>)
            /\ UNCHANGED <<candidates, written, files, xi>>
       ELSE LET scan == ScanMaster(Search(problems[1].mps)[1], 1, NoScan)
            IN /\ problem_to_candidates' =
                     DictSet(problem_to_candidates, "master", scan.found)
               /\ candidates' = {scan.found[i].key : i \in 1..Len(scan.found)}
               /\ WriteToFile(<<"master", "mps">>, problems[1].mps, ok)
               /\ IF ok
                  THEN /\ xpc' = "subproblems"
                       /\ xi' = 2
                       /\ UNCHANGED result
                  ELSE /\ ReturnFalse
                       /\ UNCHANGED xi
    /\ UNCHANGED <<problems, studyVars, algebraVars>>

\* one iteration of the loop over problems[1:]
ExportSubproblem(ok) ==
    /\ xpc = "subproblems"
    /\ xi <= Len(problems)
    /\ exported' = Append(exported, xi)
    /\ IF Search(problems[xi].mps) = None
       THEN /\ ReturnFalse
            /\ problem_to_candidates' =
                  DictSet(problem_to_candidates, problems[xi].name, <<>>)
            /\ UNCHANGED <<written, files, xi>>
       ELSE LET scan == ScanSubproblem(Search(problems[xi].mps)[1], 1,
                                       candidates, NoScan)
            IN /\ problem_to_candidates' =
                     DictSet(problem_to_candidates, problems[xi].name, scan.found)
               /\ WriteToFile(<<problems[xi].name, "mps">>, problems[xi].mps, ok)
               /\ IF ok
                  THEN /\ xi' = xi + 1
                       /\ UNCHANGED <<xpc, result>>
                  ELSE /\ ReturnFalse
                       /\ UNCHANGED xi
    /\ UNCHANGED <<problems, candidates, studyVars, algebraVars>>

\* one record of the structure file: f"{problem_name:>50}{candidate:>50}{index:>10}\n"
Record(problem_name, candidate, index) ==
    [problem_name |-> problem_name, candidate |-> candidate, index |-> index]

\* structure_str: the records of every entry of problem_to_candidates
StructureStr(mapping) ==
    Concat([i \in 1..Len(mapping) |->
              [j \in 1..Len(mapping[i].value) |->
                  Record(mapping[i].key, mapping[i].value[j].key,
                         mapping[i].value[j].value)]])

\* the structure file is written and its outcome returned
WriteStructure(ok) ==
    /\ xpc = "subproblems"
    /\ xi > Len(problems)
    /\ WriteToFile(<<"structure", "txt">>, StructureStr(problem_to_candidates), ok)
    /\ result' = Some(ok)
    /\ xpc' = "returned"
    /\ UNCHANGED <<problems, xi, problem_to_candidates, candidates, exported,
                   studyVars, algebraVars>>

(***************************************************************************)
(* The specification: a study is assembled, then built once.               *)
(***************************************************************************)
ConsistentData ==
    [k \in (NodeIds \cup ComponentIds) \X {"cost", "inflow", "tol"} |-> "constant"]

\* no export has been called
ExportIdle ==
    /\ problems = <<>>
    /\ xpc = "idle"
    /\ xi = 1
    /\ problem_to_candidates = <<>>
    /\ candidates = {}
    /\ exported = <<>>
    /\ written = <<>>
    /\ files = <<>>
    /\ result = None

(***************************************************************************)
(* The linear expression algebra: a LinearExpression is a map from term    *)
(* key to coefficient, and a constant.                                     *)
(***************************************************************************)
\* LinearExpression(): no terms, constant 0
Zero == [err |-> "none", terms |-> <<>>, constant |-> 0]

\* the term keys of the explored expressions: (component id, variable name,
\* time operator, time aggregator, scenario operator)
AlgebraKeys ==
    {<<"c", "x", NoTimeOp, "none", "none">>,
     <<"c", "x", Shift(<<-1>>), "none", "none">>}

Coefficients == (0 - MaxCoefficient)..MaxCoefficient

\* the term maps a LinearExpression can be constructed from
RawTerms ==
    UNION {[keys -> Coefficients] : keys \in SUBSET AlgebraKeys}

\* any term whose coefficient is exactly zero is removed
RemoveZerosFromTerms(terms) ==
    [k \in {q \in DOMAIN terms : terms[q] # 0} |-> terms[k]]

\* LinearExpression(terms, constant)
LinearExpression(terms, constant) ==
    [err |-> "none", terms |-> RemoveZerosFromTerms(terms), constant |-> constant]

Failed(e) == [err |-> e, terms |-> <<>>, constant |-> 0]

Coefficient(terms, k) == IF k \in DOMAIN terms THEN terms[k] ELSE 0

\* mutant: the sum keeps the terms whose coefficients cancel
LinAddUnpruned(a, b) ==
    [err |-> "none",
     terms |-> [k \in DOMAIN a.terms \cup DOMAIN b.terms |->
                  Coefficient(a.terms, k) + Coefficient(b.terms, k)],
     constant |-> a.constant + b.constant]

\* a + b: union of the term maps, coefficients summed, zeros pruned,
\* constants added
LinAdd(a, b) ==
    LinearExpression([k \in DOMAIN a.terms \cup DOMAIN b.terms |->
                         Coefficient(a.terms, k) + Coefficient(b.terms, k)],
                     a.constant + b.constant)

\* -a: every coefficient and the constant negated
LinNeg(a) ==
    LinearExpression([k \in DOMAIN a.terms |-> 0 - a.terms[k]], 0 - a.constant)

\* a - b
LinSub(a, b) ==
    LinearExpression([k \in DOMAIN a.terms \cup DOMAIN b.terms |->
                         Coefficient(a.terms, k) - Coefficient(b.terms, k)],
                     a.constant - b.constant)

\* mutant: the constant of the expression is left unscaled
ScaledTermsOnly(a, factor) ==
    LinearExpression([k \in DOMAIN a.terms |-> a.terms[k] * factor], a.constant)

\* every coefficient and the constant multiplied by the factor
Scaled(a, factor) ==
    LinearExpression([k \in DOMAIN a.terms |-> a.terms[k] * factor],
                     a.constant * factor)

\* a * b: one side must have no terms
LinMul(a, b) ==
    IF DOMAIN a.terms # {} /\ DOMAIN b.terms # {}
    THEN Failed("Cannot multiply two non constant expression")
    ELSE IF DOMAIN a.terms = {} THEN Scaled(b, a.constant)
    ELSE Scaled(a, b.constant)

\* the quotient is a whole number
Divides(d, n) == d # 0 /\ \E q \in (0 - MaxCoefficient)..MaxCoefficient : n = q * d

Quotient(n, d) == CHOOSE q \in (0 - MaxCoefficient)..MaxCoefficient : n = q * d

\* a / b: the divisor must be a constant, and not zero
LinDiv(a, b) ==
    IF DOMAIN b.terms # {} THEN Failed("Cannot divide by a non constant expression")
    ELSE IF b.constant = 0 THEN Failed("Cannot divide expression by zero")
    ELSE LinearExpression([k \in DOMAIN a.terms |-> Quotient(a.terms[k], b.constant)],
                          Quotient(a.constant, b.constant))

\* the quotients explored are the exact ones
ExactDivision(a, b) ==
    \/ DOMAIN b.terms # {}
    \/ b.constant = 0
    \/ /\ Divides(b.constant, a.constant)
       /\ \A k \in DOMAIN a.terms : Divides(b.constant, a.terms[k])

Construct(terms, constant) ==
    /\ out' = LinearExpression(terms, constant)
    /\ op' = "construct"
    /\ UNCHANGED <<lhs, rhs, studyVars, exportVars>>

Add ==
    /\ out' = LinAdd(lhs, rhs)
    /\ op' = "add"
    /\ UNCHANGED <<lhs, rhs, studyVars, exportVars>>

Subtract ==
    /\ out' = LinSub(lhs, rhs)
    /\ op' = "sub"
    /\ UNCHANGED <<lhs, rhs, studyVars, exportVars>>

Negate ==
    /\ out' = LinNeg(lhs)
    /\ op' = "neg"
    /\ UNCHANGED <<lhs, rhs, studyVars, exportVars>>

Multiply ==
    /\ out' = LinMul(lhs, rhs)
    /\ op' = "mul"
    /\ UNCHANGED <<lhs, rhs, studyVars, exportVars>>

Divide ==
    /\ ExactDivision(lhs, rhs)
    /\ out' = LinDiv(lhs, rhs)
    /\ op' = "div"
    /\ UNCHANGED <<lhs, rhs, studyVars, exportVars>>

AlgebraIdle ==
    /\ lhs = Zero
    /\ rhs = Zero
    /\ out = Zero
    /\ op = "none"

Init ==
    /\ ExportIdle
    /\ AlgebraIdle
    /\ nodes = <<>>
    /\ components = <<>>
    /\ connections = <<>>
    /\ database = ConsistentData
    /\ pc = "idle"
    /\ err = "none"
    /\ ptype = "simulator"
    /\ border = "CYCLE"
    /\ block_length = 1
    /\ scenarios = 1
    /\ idx = 1
    /\ phases = <<>>
    /\ component_variables = <<>>
    /\ connection_fields_expressions = <<>>
    /\ solver_vars = <<>>
    /\ solver_rows = <<>>
    /\ objective = EmptyObjective
    /\ lookups = {}
    /\ contributions = <<>>

PortRefs == {PortRef(c, p) : c \in Range(AllComponents), p \in PortIds}

Next ==
    \/ \E id \in NodeIds, m \in NodeModelIds : AddNode(id, m)
    \/ \E id \in ComponentIds, m \in ModelIds : AddComponent(id, m)
    \/ \E port1 \in PortRefs, port2 \in PortRefs : Connect(port1, port2)
    \/ \E t \in ProblemTypes, b \in BorderManagements,
          n \in 1..MaxBlockLength, s \in 1..MaxScenarios : BuildProblem(t, b, n, s)
    \/ RegisterConnectionFieldsDefinitions
    \/ CreateVariables
    \/ CreateConstraints
    \/ CreateObjectives
    \/ EndPhase

Spec == Init /\ [][Next]_vars

(***************************************************************************)
(* The specification of the pre-flight check: the data base starts empty   *)
(* and is filled by add_data before a one-timestep, one-scenario build.    *)
(***************************************************************************)
ParameterNames == {"cost", "inflow", "tol"}

\* an empty Network and an empty DataBase
StudyEmpty ==
    /\ nodes = <<>>
    /\ components = <<>>
    /\ connections = <<>>
    /\ database = <<>>
    /\ pc = "idle"
    /\ err = "none"
    /\ ptype = "simulator"
    /\ border = "CYCLE"
    /\ block_length = 1
    /\ scenarios = 1
    /\ idx = 1
    /\ phases = <<>>
    /\ component_variables = <<>>
    /\ connection_fields_expressions = <<>>
    /\ solver_vars = <<>>
    /\ solver_rows = <<>>
    /\ objective = EmptyObjective
    /\ lookups = {}
    /\ contributions = <<>>

DataInit ==
    /\ StudyEmpty
    /\ ExportIdle
    /\ AlgebraIdle

DataNext ==
    \/ \E id \in NodeIds, m \in NodeModelIds : AddNode(id, m)
    \/ \E id \in ComponentIds, m \in ModelIds : AddComponent(id, m)
    \/ \E id \in NodeIds \cup ComponentIds, n \in ParameterNames, k \in DataKinds :
          AddData(id, n, k)
    \/ BuildProblem("simulator", "CYCLE", 1, 1)
    \/ RegisterConnectionFieldsDefinitions
    \/ CreateVariables
    \/ CreateConstraints
    \/ CreateObjectives
    \/ EndPhase

DataSpec == DataInit /\ [][DataNext]_vars

(***************************************************************************)
(* The specification of the export: export_xpansion_problem is called once *)
(* on a list of problems; each write_to_file answers True or False.        *)
(***************************************************************************)
ExportInit ==
    /\ StudyEmpty
    /\ ExportIdle
    /\ AlgebraIdle

ExportNext ==
    \/ \E probs \in ProblemLists(MaxProblems) : ExportXpansionProblem(probs)
    \/ \E ok \in BOOLEAN : ExportMaster(ok)
    \/ \E ok \in BOOLEAN : ExportSubproblem(ok)
    \/ \E ok \in BOOLEAN : WriteStructure(ok)

ExportSpec == ExportInit /\ [][ExportNext]_vars

(***************************************************************************)
(* The specification of the algebra: two constructed operands, and the     *)
(* operations applied to them.                                             *)
(***************************************************************************)
Expressions ==
    {LinearExpression(terms, constant) : terms \in RawTerms, constant \in Coefficients}

AlgebraInit ==
    /\ StudyEmpty
    /\ ExportIdle
    /\ lhs \in Expressions
    /\ rhs \in Expressions
    /\ out = Zero
    /\ op = "none"

AlgebraNext ==
    \/ \E terms \in RawTerms, constant \in Coefficients : Construct(terms, constant)
    \/ Add
    \/ Subtract
    \/ Negate
    \/ Multiply
    \/ Divide

AlgebraSpec == AlgebraInit /\ [][AlgebraNext]_vars

(***************************************************************************)
(* Properties.                                                             *)
(***************************************************************************)
Built == pc \in {"constraints", "objectives", "done"}

ModelVariables(component) == Range(ModelOf(component.model).variables)

\* the declared variables behind a registry key or a solver variable name
DeclaredAs(component_id, name) ==
    {v \in UNION {ModelVariables(c) : c \in {c \in Range(AllComponents) :
                                            c.id = component_id}} : v.name = name}

DeclaredNamed(name) ==
    {v \in UNION {ModelVariables(c) : c \in Range(AllComponents)} : v.name = name}

IsPrefix(s, t) == Len(s) <= Len(t) /\ \A i \in 1..Len(s) : s[i] = t[i]

\* C1: a build enters the four phases in the order connections, variables,
\* constraints, objectives, each at most once and the running phase being the
\* last one entered; a build that completes has entered each exactly once.
C1_PhasesInOrder ==
    /\ IsPrefix(phases, <<"connections", "variables", "constraints", "objectives">>)
    /\ pc \in {"connections", "variables", "constraints", "objectives"}
          => phases # <<>> /\ pc = phases[Len(phases)]
    /\ pc = "done"
          => phases = <<"connections", "variables", "constraints", "objectives">>
    /\ pc = "idle" => phases = <<>>

C1_Witness ==
    /\ pc = "done"
    /\ Len(AllComponents) >= 2
    /\ solver_vars # <<>>
    /\ solver_rows # <<>>

\* for every field of the shared port type exactly one endpoint defines it
OneOwnerPerField(port1, port2) ==
    LET port_1 == ModelPorts(port1.component.model, port1.port_id)
        port_2 == ModelPorts(port2.component.model, port2.port_id)
    IN /\ port_1 # None
       /\ port_2 # None
       /\ port_1[1].port_type = port_2[1].port_type
       /\ \A f \in Range(PortTypeFields(port_1[1].port_type)) :
             HasDefinition(port1.component.model, port1.port_id, f)
                # HasDefinition(port2.component.model, port2.port_id, f)

\* C2: every connection of the network has, for every field of the shared
\* port type, exactly one endpoint defining it; connecting two ports for which
\* some field has no or two definitions raises; and a connect that raises
\* leaves the connection list unchanged.
C2_ConnectOneOwner ==
    [][pc' = "idle" =>
        /\ \A c \in Range(connections') : OneOwnerPerField(c.port1, c.port2)
        /\ \A port1 \in PortRefs, port2 \in PortRefs :
              ~OneOwnerPerField(port1, port2)
                 => ValidatePorts(port1, port2).err = "ValueError"
        /\ err' = "ValueError" => connections' = connections]_vars

C2_Witness ==
    /\ pc = "idle"
    /\ err = "ValueError"
    /\ \E port1 \in PortRefs, port2 \in PortRefs :
          /\ ModelPorts(port1.component.model, port1.port_id) # None
          /\ ModelPorts(port1.component.model, port1.port_id)
                = ModelPorts(port2.component.model, port2.port_id)
          /\ ~OneOwnerPerField(port1, port2)

\* C3: in an xpansion_master problem no operational variable is registered
\* in the context or created in the solver, no operational contribution is
\* added to the objective, and no objective coefficient sits on an
\* operational variable.
C3_MasterNoOperational ==
    ptype = "xpansion_master" /\ pc # "idle" =>
        /\ \A k \in DOMAIN component_variables :
              \A v \in DeclaredAs(k[1], k[2]) : v.context # "operational"
        /\ \A i \in 1..Len(solver_vars) :
              \A v \in DeclaredNamed(solver_vars[i].name) : v.context # "operational"
        /\ \A i \in 1..Len(contributions) : contributions[i].kind # "operational"
        /\ \A h \in DOMAIN objective.coefficients :
              \A v \in DeclaredNamed(solver_vars[h].name) : v.context # "operational"

C3_Witness ==
    /\ ptype = "xpansion_master"
    /\ pc = "done"
    /\ \E c \in Range(AllComponents) : c.model = "gen"
    /\ contributions # <<>>
    /\ DOMAIN objective.coefficients # {}

\* the keys of one declared variable, by its own indexing
KeysOf(component, v) ==
    {VariableKey(component.id, v.name, t, s) :
        t \in (IF v.time THEN 0..(block_length - 1) ELSE {0}),
        s \in (IF v.scenario THEN 0..(scenarios - 1) ELSE {0})}

\* the declared variables a problem type keeps: all of them, but the
\* operational ones of an xpansion_master
Kept(component) ==
    {v \in ModelVariables(component) :
        ~(ptype = "xpansion_master" /\ v.context = "operational")}

\* C4 as stated: an xpansion_subproblem registers and creates no investment
\* variable.
C4_SubproblemSkipsInvestment ==
    ptype = "xpansion_subproblem" /\ pc # "idle" =>
        /\ \A k \in DOMAIN component_variables :
              \A v \in DeclaredAs(k[1], k[2]) : v.context # "investment"
        /\ \A i \in 1..Len(solver_vars) :
              \A v \in DeclaredNamed(solver_vars[i].name) : v.context # "investment"

\* C4 amended: after the variable phase of an xpansion_subproblem every
\* investment variable of every component and node is registered under each
\* of its keys, with a solver variable of its name.
C4_SubproblemKeepsInvestment ==
    ptype = "xpansion_subproblem" /\ Built =>
        \A c \in Range(AllComponents) :
           \A v \in ModelVariables(c) :
              v.context = "investment" =>
                 \A k \in KeysOf(c, v) :
                    /\ k \in DOMAIN component_variables
                    /\ solver_vars[component_variables[k]].name = v.name

C4_Witness ==
    /\ ptype = "xpansion_subproblem"
    /\ Built
    /\ \E c \in Range(AllComponents) : c.model = "gen"
    /\ \E k \in DOMAIN component_variables : k[2] = "cap"

\* C5: after the variable phase of an xpansion_subproblem the registry holds
\* the keys of every declared variable of every component and node, each with
\* a solver variable of that name, and only operational contributions are
\* ever added to the objective.
C5_SubproblemAllVariables ==
    ptype = "xpansion_subproblem" /\ pc # "idle" =>
        /\ Built =>
              \A c \in Range(AllComponents) :
                 \A v \in ModelVariables(c) :
                    \A k \in KeysOf(c, v) :
                       /\ k \in DOMAIN component_variables
                       /\ solver_vars[component_variables[k]].name = v.name
        /\ \A i \in 1..Len(contributions) : contributions[i].kind = "operational"
        /\ \A h \in DOMAIN objective.coefficients :
              \A v \in DeclaredNamed(solver_vars[h].name) : v.context = "operational"

C5_Witness ==
    /\ ptype = "xpansion_subproblem"
    /\ pc = "done"
    /\ \E c \in Range(AllComponents) : c.model = "gen"
    /\ \E c \in Range(AllComponents) : c.model = "store"
    /\ Len(contributions) >= 2

\* C6: after the variable phase the keys of the registry are exactly the keys
\* of the kept variables, each by its own indexing (timesteps 0..block_length-1
\* if it varies by time, 0 otherwise; scenarios likewise), and a variable
\* declared without a bound has the infinite default on that side.
C6_RegistryKeys ==
    Built =>
        /\ DOMAIN component_variables
              = UNION {UNION {KeysOf(c, v) : v \in Kept(c)} : c \in Range(AllComponents)}
        /\ \A c \in Range(AllComponents) :
              \A v \in Kept(c) :
                 \A k \in KeysOf(c, v) :
                    LET solver_var == solver_vars[component_variables[k]]
                    IN /\ solver_var.name = v.name
                       /\ v.lower_bound = None => solver_var.lb = -Infinity
                       /\ v.upper_bound = None => solver_var.ub = Infinity
                       /\ v.lower_bound # None => solver_var.lb = v.lower_bound[1]
                       /\ v.upper_bound # None => solver_var.ub = v.upper_bound[1]

C6_Witness ==
    /\ pc = "constraints"
    /\ block_length >= 2
    /\ scenarios >= 2
    /\ \E c \in Range(AllComponents) : c.model = "store"
    /\ \E c \in Range(AllComponents) : c.model = "gen"
    /\ nodes # <<>>

\* C7: a key of the registry keeps its solver variable for ever: no
\* registration replaces an entry that exists.
C7_WriteOnce ==
    [][\A k \in DOMAIN component_variables :
          /\ k \in DOMAIN component_variables'
          /\ component_variables'[k] = component_variables[k]]_vars

QueryTimesteps == (0 - MaxQuery)..(MaxBlockLength + MaxQuery)

QueryScenarios == 0..MaxScenarios

\* t mod n, stated without the operator of the model: the r of 0..n-1 with
\* t = q * n + r
Modulo(t, n) ==
    CHOOSE r \in 0..(n - 1) :
        \E q \in (0 - MaxQuery - 1)..(MaxBlockLength + MaxQuery + 1) : t = q * n + r

StructureOf(v) == [time |-> v.time, scenario |-> v.scenario]

Get(c, v, t, s) ==
    GetComponentVariable(component_variables, t, s, c.id, v.name, StructureOf(v))

\* C8: under CYCLE a lookup of a time-varying variable at block_length + k
\* gives what the lookup at k gives, and a lookup at any integer t gives the
\* solver variable registered at t mod block_length.
C8_CycleWraps ==
    border = "CYCLE" /\ Built =>
        \A c \in Range(AllComponents) :
           \A v \in {w \in Kept(c) : w.time} :
              \A s \in 0..(scenarios - 1) :
                 /\ \A k \in (0 - MaxQuery)..MaxQuery :
                       Get(c, v, block_length + k, s) = Get(c, v, k, s)
                 /\ \A t \in QueryTimesteps :
                       /\ Get(c, v, t, s).err = "none"
                       /\ Get(c, v, t, s).value =
                             component_variables[VariableKey(c.id, v.name,
                                 Modulo(t, block_length),
                                 IF v.scenario THEN s ELSE 0)]

C8_Witness ==
    /\ border = "CYCLE"
    /\ pc = "done"
    /\ block_length >= 2
    /\ \E l \in lookups : l.structure.time /\ l.block_timestep >= block_length
    /\ \E l \in lookups : l.structure.time /\ l.block_timestep < 0

C10_LookupKey ==
    border = "CYCLE" /\ Built =>
        /\ \A c \in Range(AllComponents) :
              \A v \in Kept(c) :
                 \A t \in QueryTimesteps, s \in QueryScenarios :
                    LET key == VariableKey(c.id, v.name,
                                  IF v.time THEN Modulo(t, block_length) ELSE 0,
                                  IF v.scenario THEN s ELSE 0)
                    IN /\ LookupKey(t, s, c.id, v.name, StructureOf(v)) = Ok(key)
                       /\ key \in DOMAIN component_variables
                             => Get(c, v, t, s) = Ok(component_variables[key])
                       /\ key \notin DOMAIN component_variables
                             => Get(c, v, t, s).err = "KeyError"
        /\ \A l \in lookups :
              LookupKey(l.block_timestep, l.scenario, l.component_id,
                        l.variable_name, l.structure).value
                 = VariableKey(l.component_id, l.variable_name,
                      IF l.structure.time THEN Modulo(l.block_timestep, block_length)
                      ELSE 0,
                      IF l.structure.scenario THEN l.scenario ELSE 0)

C10_Witness ==
    /\ border = "CYCLE"
    /\ pc = "done"
    /\ \E l \in lookups : ~l.structure.time /\ l.block_timestep > 0
    /\ \E l \in lookups : ~l.structure.scenario /\ l.scenario > 0

\* the constraints of every component and node are created
ConstraintsDone == pc \in {"objectives", "done"}

\* the expressions registered for the port fields a body refers to
PortExpressions(c, constraint) ==
    UNION {Range(connection_fields_expressions[<<c.id, pf.port_name, pf.field_name>>]) :
              pf \in Range(constraint.expression.port_fields)}

\* the (component id, variable name, time operator) of every term of a body,
\* the terms behind its port fields included
BodyRefs(c, constraint) ==
    {<<c.id, t.variable_name, t.time_operator>> :
        t \in Range(constraint.expression.terms)}
    \cup UNION {{<<t.component_id, t.variable_name, t.time_operator>> :
                    t \in Range(e.terms)} : e \in PortExpressions(c, constraint)}

\* the declared indexing of the variable behind a reference
RefStructure(ref) ==
    StructureOf(CHOOSE v \in Range(ModelOf(DictGet(components, ref[1]).model).variables) :
                    v.name = ref[2])

BodyIndexing(c, constraint) ==
    LET structures == {RefStructure(r) : r \in BodyRefs(c, constraint)}
    IN [time |-> \E st \in structures : st.time,
        scenario |-> \E st \in structures : st.scenario]

\* the iteration policy of a constraint: the indexing of the body if it
\* varies at all, otherwise that of the lower bound if it varies, otherwise
\* that of the upper bound
IterationPolicy(c, constraint) ==
    LET body == BodyIndexing(c, constraint)
    IN IF body.time \/ body.scenario THEN body
       ELSE IF constraint.lower_bound.time \/ constraint.lower_bound.scenario
       THEN [time |-> constraint.lower_bound.time,
             scenario |-> constraint.lower_bound.scenario]
       ELSE [time |-> constraint.upper_bound.time,
             scenario |-> constraint.upper_bound.scenario]

\* the (timestep, scenario) pairs of an indexing, timestep-major
PairsOf(indexing) ==
    LET nt == IF indexing.time THEN block_length ELSE 1
        ns == IF indexing.scenario THEN scenarios ELSE 1
    IN [p \in 1..(nt * ns) |-> <<(p - 1) \div ns, (p - 1) % ns>>]

\* number_of_instances: the longest time-operator index list of the body's
\* terms, 1 when no term has a time operator
InstancesOf(c, constraint) ==
    LET lens == {Len(r[3].time_ids) :
                    r \in {q \in BodyRefs(c, constraint) : q[3].kind # "none"}}
    IN IF lens = {} THEN 1 ELSE CHOOSE m \in lens : \A l \in lens : l <= m

\* the constant left in the body once its port fields are resolved
RECURSIVE PortConstants(_, _)
PortConstants(c, port_fields) ==
    IF port_fields = <<>> THEN 0
    ELSE SumConstants(connection_fields_expressions[
             <<c.id, Head(port_fields).port_name, Head(port_fields).field_name>>])
         + PortConstants(c, Tail(port_fields))

ResidualConstant(c, constraint) ==
    constraint.expression.constant + PortConstants(c, constraint.expression.port_fields)

\* a bound less the residual constant; an infinite bound stays infinite
ExpectedBound(value, constant) ==
    IF value >= Infinity THEN Infinity
    ELSE IF value <= -Infinity THEN -Infinity
    ELSE value - constant

\* the rows a constraint of a component is due, in creation order
RowsDue(c, constraint) ==
    LET pairs == PairsOf(IterationPolicy(c, constraint))
        instances == InstancesOf(c, constraint)
        constant == ResidualConstant(c, constraint)
    IN Concat([p \in 1..Len(pairs) |->
          [j \in 1..instances |->
             [constraint |-> constraint.name,
              block_timestep |-> pairs[p][1],
              scenario |-> pairs[p][2],
              instance |-> j - 1,
              instances |-> instances,
              lb |-> ExpectedBound(
                        GetValue(constraint.lower_bound, pairs[p][1], pairs[p][2]),
                        constant),
              ub |-> ExpectedBound(
                        GetValue(constraint.upper_bound, pairs[p][1], pairs[p][2]),
                        constant)]]])

ExpectedRows ==
    Concat([i \in 1..Len(AllComponents) |->
       Concat([k \in 1..Len(ModelOf(AllComponents[i].model).constraints) |->
          RowsDue(AllComponents[i], ModelOf(AllComponents[i].model).constraints[k])])])

\* C11: once the constraint phase is over, the rows of the solver are, in
\* order, those of every constraint of every component and node: for each
\* (timestep, scenario) of the iteration policy exactly number_of_instances
\* rows (the longest time-operator index list of the body, 1 without one),
\* each with the bounds of that (timestep, scenario) less the constant.
C11_RowsPerInstance ==
    ConstraintsDone =>
        LET due == ExpectedRows
        IN /\ Len(solver_rows) = Len(due)
           /\ \A i \in 1..Len(solver_rows) :
                 /\ solver_rows[i].name[1] = due[i].constraint
                 /\ solver_rows[i].block_timestep = due[i].block_timestep
                 /\ solver_rows[i].scenario = due[i].scenario
                 /\ solver_rows[i].lb = due[i].lb
                 /\ solver_rows[i].ub = due[i].ub

C11_Witness ==
    /\ pc = "done"
    /\ block_length >= 2
    /\ scenarios >= 2
    /\ \E c \in Range(AllComponents) : c.model = "store"
    /\ \E i \in 1..Len(solver_rows) :
          /\ solver_rows[i].name[1] = "window"
          /\ solver_rows[i].block_timestep = 1
          /\ solver_rows[i].scenario = 1
    /\ Cardinality({i \in 1..Len(solver_rows) :
                       /\ solver_rows[i].name[1] = "window"
                       /\ solver_rows[i].block_timestep = 1
                       /\ solver_rows[i].scenario = 1}) = 2

\* C12: once the constraint phase is over, row number i of a constraint that
\* makes N > 1 rows per (timestep, scenario) is named by the constraint name
\* followed by the one suffix i, and the row of a constraint that makes one
\* row carries the constraint name alone.
C12_SingleSuffix ==
    ConstraintsDone =>
        LET due == ExpectedRows
        IN \A i \in 1..Len(solver_rows) :
              i <= Len(due) =>
                 solver_rows[i].name =
                    IF due[i].instances > 1
                    THEN <<due[i].constraint, due[i].instance>>
                    ELSE <<due[i].constraint>>

\* the OR of the indexing of the body, the lower bound and the upper bound
OrIndexing(c, constraint) ==
    LET body == BodyIndexing(c, constraint)
    IN [time |-> \/ body.time
                 \/ constraint.lower_bound.time
                 \/ constraint.upper_bound.time,
        scenario |-> \/ body.scenario
                     \/ constraint.lower_bound.scenario
                     \/ constraint.upper_bound.scenario]

\* C13: once the constraint phase is over, every constraint of every
\* component and node has a row at every (timestep, scenario) of the OR of the
\* indexing of its body, its lower bound and its upper bound, and a
\* constraint that nothing makes vary by time has rows at timestep 0 only.
C13_RowsForOrOfIndexings ==
    ConstraintsDone =>
        \A c \in Range(AllComponents) :
           \A constraint \in Range(ModelOf(c.model).constraints) :
              /\ \A p \in Range(PairsOf(OrIndexing(c, constraint))) :
                    \E i \in 1..Len(solver_rows) :
                       /\ solver_rows[i].name[1] = constraint.name
                       /\ solver_rows[i].block_timestep = p[1]
                       /\ solver_rows[i].scenario = p[2]
              /\ ~OrIndexing(c, constraint).time =>
                    \A i \in 1..Len(solver_rows) :
                       solver_rows[i].name[1] = constraint.name
                          => solver_rows[i].block_timestep = 0

RECURSIVE SumSeq(_)
SumSeq(seq) == IF seq = <<>> THEN 0 ELSE Head(seq) + SumSeq(Tail(seq))

\* the solver variable behind a term at (timestep, scenario)
HandleOf(term, t, s) ==
    component_variables[VariableKey(term.component_id, term.variable_name,
        IF term.structure.time THEN Modulo(t, block_length) ELSE 0,
        IF term.structure.scenario THEN s ELSE 0)]

\* how many times a term of the objective resolves to h in scenario s
Hits(h, term, s) ==
    LET ts == TermTimesteps(term, 0, 0).value
    IN Cardinality({k \in 1..Len(ts) : HandleOf(term, ts[k], s) = h})

\* what a term adds to the coefficient of h, times the scenario count: an
\* Expectation term coefficient/scenarios in each scenario, any other term
\* its coefficient in scenario 0
TermShare(h, term) ==
    IF term.scenario_operator = "expec"
    THEN term.coefficient * SumSeq([s \in 1..scenarios |-> Hits(h, term, s - 1)])
    ELSE scenarios * term.coefficient * Hits(h, term, 0)

ContributionShare(h, expression) ==
    SumSeq([k \in 1..Len(expression.terms) |-> TermShare(h, expression.terms[k])])

ScopedTerms(c, expression) ==
    [k \in 1..Len(expression.terms) |->
        [component_id |-> c.id,
         variable_name |-> expression.terms[k].variable_name,
         coefficient |-> expression.terms[k].coefficient,
         structure |-> RefStructure(<<c.id, expression.terms[k].variable_name>>),
         time_operator |-> expression.terms[k].time_operator,
         time_aggregator |-> expression.terms[k].time_aggregator,
         scenario_operator |-> expression.terms[k].scenario_operator]]

Due(c, kind, expression) ==
    [component_id |-> c.id, kind |-> kind,
     terms |-> ScopedTerms(c, expression), constant |-> expression.constant]

\* the contributions of a component the problem type includes: the
\* operational one unless xpansion_master, the investment one unless
\* xpansion_subproblem
Included(c) ==
    (IF ptype # "xpansion_master"
        /\ ModelOf(c.model).objective_operational_contribution # None
     THEN <<Due(c, "operational",
                ModelOf(c.model).objective_operational_contribution[1])>>
     ELSE <<>>)
    \o (IF ptype # "xpansion_subproblem"
           /\ ModelOf(c.model).objective_investment_contribution # None
        THEN <<Due(c, "investment",
                   ModelOf(c.model).objective_investment_contribution[1])>>
        ELSE <<>>)

AllIncluded == Concat([i \in 1..Len(AllComponents) |-> Included(AllComponents[i])])

Matches(kind, parameter) ==
    \/ kind = "constant"
    \/ kind = "time" /\ parameter.time
    \/ kind = "scenario" /\ parameter.scenario
    \/ kind = "time_scenario" /\ parameter.time /\ parameter.scenario

\* some declared parameter of c has data that does not match its declaration
Mismatched(c) ==
    \E parameter \in Range(ModelOf(c.model).parameters) :
       /\ <<c.id, parameter.name>> \in DOMAIN database
       /\ ~Matches(database[<<c.id, parameter.name>>], parameter)

\* C16: whenever the data supplied for a declared parameter of a component
\* or node of the network does not match its declaration, build_problem
\* raises before the context is created and before anything is built.
C16_MismatchRaises ==
    (\E c \in Range(AllComponents) : Mismatched(c)) =>
        \/ pc = "idle"
        \/ /\ pc = "aborted"
           /\ phases = <<>>
           /\ component_variables = <<>>
           /\ solver_vars = <<>>
           /\ solver_rows = <<>>
           /\ objective = EmptyObjective

\* C17: export_xpansion_problem called with fewer than two problems returns
\* False at once: no problem is exported, write_to_file is not called and
\* no file exists.
C17_TooFewReturnsFalse ==
    Len(problems) < 2 /\ xpc # "idle" =>
        /\ xpc = "returned"
        /\ result = Some(FALSE)
        /\ exported = <<>>
        /\ written = <<>>
        /\ files = <<>>

C17_Witness ==
    /\ xpc = "returned"
    /\ Len(problems) = 1
    /\ Search(problems[1].mps) # None
    /\ result = Some(FALSE)

\* the text has a COLUMNS section
HasColumns(text) == \E i \in 1..Len(text) : text[i] = Header("COLUMNS")

WrittenOk(file) == [file |-> file, ok |-> TRUE] \in Range(written)

\* C18: a call on two problems or more returns False whenever the export of
\* the master or of a subproblem has no COLUMNS section and whenever a
\* write_to_file failed; it returns True only if master.mps, the matrix file
\* of every subproblem and structure.txt were all written.
C18_ExportOutcome ==
    xpc = "returned" /\ Len(problems) >= 2 =>
        /\ result \in {Some(TRUE), Some(FALSE)}
        /\ (\E i \in 1..Len(problems) : ~HasColumns(problems[i].mps))
              => result = Some(FALSE)
        /\ (\E i \in 1..Len(written) : ~written[i].ok) => result = Some(FALSE)
        /\ result = Some(TRUE) =>
              /\ WrittenOk(<<"master", "mps">>)
              /\ \A i \in 2..Len(problems) : WrittenOk(<<problems[i].name, "mps">>)
              /\ WrittenOk(<<"structure", "txt">>)
              /\ Len(written) = Len(problems) + 1
              /\ exported = [i \in 1..Len(problems) |-> i]
              /\ {<<"master", "mps">>, <<"structure", "txt">>}
                    \cup {<<problems[i].name, "mps">> : i \in 2..Len(problems)}
                 = DOMAIN files

C18_Witness ==
    /\ xpc = "returned"
    /\ result = Some(TRUE)
    /\ Len(problems) = 3
    /\ Len(written) = 4

\* the records due to problem number i: the candidates of the master with
\* their column index in that problem
RecordsOf(i) ==
    LET known == ScanMaster(Search(problems[1].mps)[1], 1, NoScan).found
        found == IF i = 1 THEN known
                 ELSE ScanSubproblem(Search(problems[i].mps)[1], 1,
                         {known[k].key : k \in 1..Len(known)}, NoScan).found
    IN [j \in 1..Len(found) |->
          Record(IF i = 1 THEN "master" ELSE problems[i].name,
                 found[j].key, found[j].value)]

\* C19: after a successful export the structure file holds one record for
\* every supplied problem and every candidate recorded for it, the master's
\* first and then each subproblem's in the order supplied; no problem's
\* records are lost or replaced by another's.
C19_StructureCorrelatesAll ==
    xpc = "returned" /\ result = Some(TRUE) =>
        files[<<"structure", "txt">>]
           = Concat([i \in 1..Len(problems) |-> RecordsOf(i)])

NoZeroTerm(e) == \A k \in DOMAIN e.terms : e.terms[k] # 0

\* C20: for all linear expressions a and b, a + (-a) is the zero expression
\* (no terms, constant 0) and a + b = b + a; and no term with coefficient
\* zero is left in the term map by a construction, an addition, a
\* subtraction, a negation, a multiplication or a division.
C20_AdditiveGroup ==
    /\ LinAdd(lhs, LinNeg(lhs)) = Zero
    /\ LinAdd(LinNeg(lhs), lhs) = Zero
    /\ LinAdd(lhs, rhs) = LinAdd(rhs, lhs)
    /\ op = "add" => out = LinAdd(rhs, lhs)
    /\ NoZeroTerm(lhs)
    /\ NoZeroTerm(rhs)
    /\ NoZeroTerm(out)
    /\ NoZeroTerm(LinAdd(lhs, rhs))
    /\ NoZeroTerm(LinSub(lhs, rhs))
    /\ NoZeroTerm(LinNeg(lhs))
    /\ NoZeroTerm(LinMul(lhs, rhs))

C20_Witness ==
    /\ op = "add"
    /\ DOMAIN lhs.terms = AlgebraKeys
    /\ DOMAIN rhs.terms = AlgebraKeys
    /\ Cardinality(DOMAIN out.terms) = 1
    /\ out.constant = 0
    /\ lhs.constant # 0

IsConstant(e) == DOMAIN e.terms = {}

\* the operand e with every coefficient and the constant multiplied by c
ScaledBy(e, c) ==
    [err |-> "none",
     terms |-> [k \in {q \in DOMAIN e.terms : e.terms[q] * c # 0} |-> e.terms[k] * c],
     constant |-> e.constant * c]

ExpectedProduct(a, b) ==
    IF ~IsConstant(a) /\ ~IsConstant(b)
    THEN [err |-> "Cannot multiply two non constant expression",
          terms |-> <<>>, constant |-> 0]
    ELSE IF IsConstant(b) THEN ScaledBy(a, b.constant)
    ELSE ScaledBy(b, a.constant)

\* C21: the product of two linear expressions that both have terms is the
\* error 'Cannot multiply two non constant expression'; when one operand is
\* a pure constant c the product, in either order of the operands, is the
\* other operand with every coefficient and the constant multiplied by c,
\* and the product with the constant 0 is the zero expression.
C21_Multiplication ==
    /\ LinMul(lhs, rhs) = ExpectedProduct(lhs, rhs)
    /\ LinMul(rhs, lhs) = ExpectedProduct(lhs, rhs)
    /\ op = "mul" => out = ExpectedProduct(lhs, rhs)
    /\ IsConstant(rhs) /\ rhs.constant = 0 => LinMul(lhs, rhs) = Zero

C21_Witness ==
    /\ op = "mul"
    /\ DOMAIN lhs.terms = AlgebraKeys
    /\ lhs.constant = 1
    /\ IsConstant(rhs)
    /\ rhs.constant = 0 - 1
    /\ DOMAIN out.terms = AlgebraKeys
    /\ out.constant = 0 - 1

\* the definition of the field by the endpoint that owns it, every term
\* carrying the owner's component id
OwnerDefinition(cnx, k) ==
    LET owner == cnx.master_port[k].port
        definition == PortFieldDefinition(owner.component.model, owner.port_id,
                                          cnx.master_port[k].field)
    IN [definition EXCEPT !.terms =
          [j \in 1..Len(definition.terms) |->
             [definition.terms[j] EXCEPT !.component_id = owner.component.id]]]

EndpointKey(port, field_name) == <<port.component.id, port.port_id, field_name>>

\* what one field of one connection appends to the list under the key
AppendedTo(key, cnx, k) ==
    (IF EndpointKey(cnx.port1, cnx.master_port[k].field) = key
     THEN <<OwnerDefinition(cnx, k)>> ELSE <<>>)
    \o (IF EndpointKey(cnx.port2, cnx.master_port[k].field) = key
        THEN <<OwnerDefinition(cnx, k)>> ELSE <<>>)

\* the registry once every connection, in order, and every field has been
\* registered
ExpectedRegistry ==
    [key \in {<<cnx.port1.component.id, cnx.port1.port_id, f.field>> :
                 cnx \in Range(connections),
                 f \in UNION {Range(c.master_port) : c \in Range(connections)}}
             \cup {<<cnx.port2.component.id, cnx.port2.port_id, f.field>> :
                 cnx \in Range(connections),
                 f \in UNION {Range(c.master_port) : c \in Range(connections)}} |->
        Concat([i \in 1..Len(connections) |->
                  Concat([k \in 1..Len(connections[i].master_port) |->
                            AppendedTo(key, connections[i], k)])])]

\* a step of the variable, constraint or objective phase keeps the registry
RegistryReadOnly ==
    pc \in {"variables", "constraints", "objectives"}
       => connection_fields_expressions' = connection_fields_expressions

C22_WitnessSharedKey ==
    /\ pc = "done"
    /\ \E key \in DOMAIN connection_fields_expressions :
          Len(connection_fields_expressions[key]) = 2

\* the time operators a term is resolved with
QueryOperators ==
    {NoTimeOp, Shift(<<-1>>), Shift(<<1, 2>>), Evaluation(<<0>>), Evaluation(<<1, 0>>)}

QueryTerm(c, v, operator, aggregator) ==
    [component_id |-> c.id, variable_name |-> v.name, coefficient |-> 1,
     structure |-> StructureOf(v), time_operator |-> operator,
     time_aggregator |-> aggregator, scenario_operator |-> "none"]

\* the handle registered for the variable at a timestep, wrapped into the
\* block, and a scenario
HandleAt(c, v, t, s) ==
    component_variables[<<c.id, v.name,
                          IF v.time THEN Modulo(t, block_length) ELSE 0,
                          IF v.scenario THEN s ELSE 0>>]

Occurrences(seq, x) == Cardinality({k \in 1..Len(seq) : seq[k] = x})

\* what resolving the term at (t, s, i) is to return
Resolved(c, v, operator, aggregator, t, s, i, got) ==
    LET ids == operator.time_ids
    IN /\ got.err = "none"
       /\ aggregator = "sum" /\ operator.kind = "shift"
             => got.solver_vars = [k \in 1..Len(ids) |-> HandleAt(c, v, t + ids[k], s)]
       /\ aggregator = "sum" /\ operator.kind = "eval"
             => got.solver_vars = [k \in 1..Len(ids) |-> HandleAt(c, v, ids[k], s)]
       /\ aggregator = "sum" /\ operator.kind = "none"
             => /\ Len(got.solver_vars) = block_length
                /\ \A u \in 0..(block_length - 1) :
                      Occurrences(got.solver_vars, HandleAt(c, v, u, s))
                         = Cardinality({w \in 0..(block_length - 1) :
                              HandleAt(c, v, w, s) = HandleAt(c, v, u, s)})
       /\ aggregator = "none" /\ operator.kind = "shift"
             => got.solver_vars = <<HandleAt(c, v, t + ids[i + 1], s)>>
       /\ aggregator = "none" /\ operator.kind = "eval"
             => got.solver_vars = <<HandleAt(c, v, ids[i + 1], s)>>
       /\ aggregator = "none" /\ operator.kind = "none"
             => got.solver_vars = <<HandleAt(c, v, t, s)>>

\* C23: resolving a term at (timestep t, scenario s, instance i) returns,
\* with aggregator Sum, one handle per offset at t + offset for Shift, one
\* handle per absolute index whatever t for Evaluation, and block_length
\* handles, one for each timestep of the block, without time operator; with
\* no aggregator a single handle, at t + offsets[i], at indices[i], or at t;
\* every timestep is wrapped by the border policy (CYCLE) before the lookup,
\* and under the other policy the resolution raises.
C23_SolverVarsOfTerm ==
    Built =>
       \A c \in Range(AllComponents) :
          \A v \in Kept(c) :
             \A operator \in QueryOperators, aggregator \in {"none", "sum"} :
                \A t \in 0..(block_length - 1), s \in 0..(scenarios - 1) :
                   \A i \in {j \in 0..1 : operator.kind = "none"
                                             \/ j < Len(operator.time_ids)} :
                      LET got == GetSolverVars(QueryTerm(c, v, operator, aggregator),
                                               t, s, i, {})
                      IN IF border = "CYCLE"
                         THEN Resolved(c, v, operator, aggregator, t, s, i, got)
                         ELSE got.err = "NotImplementedError"

C23_Witness ==
    /\ border = "CYCLE"
    /\ pc = "done"
    /\ block_length = 2
    /\ \E l \in lookups : l.variable_name = "level" /\ l.block_timestep = 3
    /\ \E l \in lookups : l.variable_name = "gen" /\ l.block_timestep = 1
    /\ \E i \in 1..Len(solver_rows) : Cardinality(DOMAIN solver_rows[i].coefficients) = 2

\* the terms of a constraint body in order, its own terms scoped with the
\* component id and then the terms registered for its port fields, each with
\* the declared indexing of its variable
BodyTerms(c, constraint) ==
    LET own == [k \in 1..Len(constraint.expression.terms) |->
                  [constraint.expression.terms[k] EXCEPT !.component_id = c.id]]
        pfs == constraint.expression.port_fields
        port == Concat([q \in 1..Len(pfs) |->
                   LET exprs == connection_fields_expressions[
                                   <<c.id, pfs[q].port_name, pfs[q].field_name>>]
                   IN Concat([e \in 1..Len(exprs) |-> exprs[e].terms])])
        all == own \o port
    IN [k \in 1..Len(all) |->
          [component_id |-> all[k].component_id,
           variable_name |-> all[k].variable_name,
           coefficient |-> all[k].coefficient,
           time_operator |-> all[k].time_operator,
           time_aggregator |-> all[k].time_aggregator,
           structure |-> RefStructure(<<all[k].component_id, all[k].variable_name,
                                        all[k].time_operator>>)]]

\* the (component, constraint, timestep, scenario, instance) of every row,
\* in creation order
RowSources(c, constraint) ==
    LET pairs == PairsOf(IterationPolicy(c, constraint))
        instances == InstancesOf(c, constraint)
        terms == BodyTerms(c, constraint)
        constant == ResidualConstant(c, constraint)
    IN Concat([p \in 1..Len(pairs) |->
          [j \in 1..instances |->
             [terms |-> terms, constant |-> constant,
              lower |-> GetValue(constraint.lower_bound, pairs[p][1], pairs[p][2]),
              upper |-> GetValue(constraint.upper_bound, pairs[p][1], pairs[p][2]),
              block_timestep |-> pairs[p][1], scenario |-> pairs[p][2],
              instance |-> j - 1, instances |-> instances]]])

AllRowSources ==
    Concat([i \in 1..Len(AllComponents) |->
       Concat([k \in 1..Len(ModelOf(AllComponents[i].model).constraints) |->
          RowSources(AllComponents[i], ModelOf(AllComponents[i].model).constraints[k])])])

\* how many handles of the term resolve to the solver variable h in the row
RowHits(h, term, src) ==
    LET ts == TermTimesteps(term, src.block_timestep, src.instance).value
    IN Cardinality({k \in 1..Len(ts) : HandleOf(term, ts[k], src.scenario) = h})

\* the sum of term.coefficient over the (term, handle) occurrences on h
OccurrenceSum(h, src) ==
    SumSeq([k \in 1..Len(src.terms) |->
              src.terms[k].coefficient * RowHits(h, src.terms[k], src)])

\* C24: once the constraint phase is over, in every row the coefficient of
\* each solver variable is the sum of term.coefficient over every
\* (term, handle) occurrence of the body that resolves to that variable, and
\* the bounds of the row are the lower and the upper bound evaluated at the
\* row's (timestep, scenario), each less the body's constant once, in every
\* row of a constraint that makes several (an infinite bound stays infinite).
C24_RowCoefficientsAndBounds ==
    ConstraintsDone =>
        LET src == AllRowSources
        IN /\ Len(solver_rows) = Len(src)
           /\ \A i \in 1..Len(solver_rows) :
                 /\ \A h \in 1..Len(solver_vars) :
                       GetCoefficient(solver_rows[i].coefficients, h)
                          = OccurrenceSum(h, src[i])
                 /\ DOMAIN solver_rows[i].coefficients \subseteq 1..Len(solver_vars)
                 /\ solver_rows[i].lb =
                       (IF src[i].lower <= -Infinity THEN -Infinity
                        ELSE src[i].lower - src[i].constant)
                 /\ solver_rows[i].ub =
                       (IF src[i].upper >= Infinity THEN Infinity
                        ELSE src[i].upper - src[i].constant)

\* a row whose two terms land on the same variable, and a second row of a
\* constraint with a constant
C24_Witness ==
    /\ pc = "done"
    /\ block_length = 1
    /\ \E i \in 1..Len(solver_rows) :
          /\ solver_rows[i].name[1] = "dynamics"
          /\ \E h \in DOMAIN solver_rows[i].coefficients :
                solver_rows[i].coefficients[h] = 0
    /\ \E i \in 1..Len(solver_rows) :
          /\ solver_rows[i].name = <<"window", 0, 1>>
          /\ solver_rows[i].ub = 1

\* the names of the variables of a columns section
NamesOf(columns) == {columns[k].text : k \in 1..Len(columns)}

\* the zero-based rank of the first appearance of a name among the distinct
\* names of the section
RankOf(columns, name) ==
    LET first == CHOOSE k \in 1..Len(columns) :
                    /\ columns[k].text = name
                    /\ \A j \in 1..(k - 1) : columns[j].text # name
    IN Cardinality({columns[j].text : j \in 1..(first - 1)})

\* the variable has an entry in the objective row
CarriesCost(columns, name) ==
    \E k \in 1..Len(columns) : columns[k].text = name /\ "COST" \in Range(columns[k].rows)

\* what is recorded for a problem: the set of (name, index)
RecordedFor(problem_name) ==
    LET hit == {i \in 1..Len(problem_to_candidates) :
                  problem_to_candidates[i].key = problem_name}
        entry == problem_to_candidates[CHOOSE i \in hit : TRUE].value
    IN {<<entry[k].key, entry[k].value>> : k \in 1..Len(entry)}

MasterColumns == Search(problems[1].mps)[1]

\* C25: once the master is scanned, the names recorded for it (and the
\* candidates) are exactly its variables with an entry in the objective row,
\* each with the zero-based rank of its first appearance among the distinct
\* names; once a subproblem is scanned, the names recorded for it are exactly
\* those of its variables that are such candidates of the master, each with
\* its rank in the subproblem, counted from 0 again.
C25_ColumnRanks ==
    /\ xpc = "subproblems" /\ exported = <<1>> =>
          /\ RecordedFor("master")
                = {<<name, RankOf(MasterColumns, name)>> :
                     name \in {n \in NamesOf(MasterColumns) :
                                 CarriesCost(MasterColumns, n)}}
          /\ candidates = {n \in NamesOf(MasterColumns) : CarriesCost(MasterColumns, n)}
    /\ Len(exported) >= 2 /\ Search(problems[exported[Len(exported)]].mps) # None =>
          LET columns == Search(problems[exported[Len(exported)]].mps)[1]
          IN RecordedFor(problems[exported[Len(exported)]].name)
                = {<<name, RankOf(columns, name)>> :
                     name \in {n \in NamesOf(columns) :
                                 /\ n \in NamesOf(MasterColumns)
                                 /\ CarriesCost(MasterColumns, n)}}

\* the key a recorded lookup read
KeyRead(l) ==
    LookupKey(l.block_timestep, l.scenario, l.component_id, l.variable_name,
              l.structure).value

\* every key looked up so far is registered
LookupsRegistered ==
    \A l \in lookups : KeyRead(l) \in DOMAIN component_variables

\* C26: whatever the problem type, every variable key looked up while the
\* constraints and the objectives are created was registered by the variable
\* phase: no build of a network with consistent data looks up, and so ends
\* on, an unregistered key.
C26_LookupsAreRegistered ==
    border = "CYCLE" => LookupsRegistered

\* the same for the problem types that keep every variable
C26_LookupsRegisteredUnlessMaster ==
    border = "CYCLE" /\ ptype # "xpansion_master" => LookupsRegistered

\* the index lists of the terms of a constraint body that pick one entry
\* per row
PickedLists(c, constraint) ==
    {r[3].time_ids : r \in {q \in BodyRefs(c, constraint) : q[3].kind # "none"}}

\* C27: while the rows of a constraint are made, the instance index that
\* picks an entry of the Shift or Evaluation index list of a term is smaller
\* than the length of that list, for every row 0..number_of_instances-1 and
\* every term, also when the lists of the body differ in length: no build
\* ends on an index out of range.
C27_InstanceIndexInRange ==
    /\ err # "IndexError"
    /\ \A i \in 1..Len(solver_rows) :
          \A c \in Range(AllComponents) :
             \A constraint \in Range(ModelOf(c.model).constraints) :
                constraint.name = solver_rows[i].name[1]
                   => \A ids \in PickedLists(c, constraint) :
                         \A suffix \in Range(Tail(solver_rows[i].name)) :
                            suffix < Len(ids)

\* C28: the pre-flight check covers the nodes as it covers the components:
\* a build called while the data of a parameter of a node does not match
\* the parameter's declared indexing ends with the data-inconsistency error,
\* with no variable registered or created and no row created.
C28_NodesAreChecked ==
    \A n \in Range(nodes) :
       Mismatched(n) /\ pc # "idle" =>
          /\ pc = "aborted"
          /\ err = "ValueError"
          /\ component_variables = <<>>
          /\ solver_vars = <<>>
          /\ solver_rows = <<>>

\* the same for the plain components
C28_ComponentsAreChecked ==
    \A c \in Range(components) :
       Mismatched(c) /\ pc # "idle" =>
          /\ pc = "aborted"
          /\ err \in {"ValueError", "KeyError"}
          /\ component_variables = <<>>
          /\ solver_vars = <<>>
          /\ solver_rows = <<>>

\* the positions, among the solver variables of the problem in creation
\* order, of the columns that carry the name
PositionsOf(columns, name) ==
    {columns[k].column : k \in {j \in 1..Len(columns) : columns[j].text = name}}

\* every index recorded for the problem is the position of a column of the
\* candidate it is recorded for
IndexIsPosition(problem_name, columns) ==
    \A r \in RecordedFor(problem_name) : r[2] \in PositionsOf(columns, r[1])

C30_FailureLeavesNoFile ==
    xpc = "returned" /\ result = Some(FALSE) =>
        /\ files = <<>>
        /\ \A i \in 1..Len(written) : ~written[i].ok

====
